---------------------------- MODULE Spec2Model ----------------------------
(***************************************************************************)
(* State-machine model of the dispatch-and-resilience core of mobile-ai:   *)
(* the error/recovery subsystem (core::ErrorHandler), the accelerator      *)
(* variants (hardware::QualcommAccelerator, hardware::MTKAccelerator), the *)
(* inference engine (inference::ModelEngine) and the performance monitor   *)
(* (monitoring::PerformanceMonitor).                                       *)
(*                                                                         *)
(* Every public operation is one action.  An operation that holds the      *)
(* object's mutex for its whole body is atomic with respect to the other   *)
(* operations of the object, so it is modelled as one step.                *)
(***************************************************************************)
EXTENDS Integers, Sequences, FiniteSets, TLC

(***************************************************************************)
(* Bounds of the model (not program constants).                            *)
(***************************************************************************)
MaxReports == 2        \* HandleError/ReportError calls explored by SpecErr
MaxCallbacks == 2      \* listeners registered
MaxRetriesArg == 3     \* largest argument given to SetMaxRetries
HistReports == 1002    \* reports explored by SpecHistory (beyond the cap)
MaxAccReports == 1     \* errors an accelerator reports to its own handler
ScenarioInterval == 100 \* sampling interval of the timed scenario, ms
StopAfter == 350       \* StopMonitoring is called about this long after start, ms
StopSlack == 10        \* ... give or take this much, ms
MaxLatency == 10       \* longest delay of one step of the sampling thread, ms
StaleWindow == 10      \* longest time a cleared monitoring_ still reads true, ms
ClockStep == 10        \* resolution of the clock, ms
Horizon == 600         \* the clock stops here, ms
TimMaxSamples == 6     \* samples explored by SpecTimed

(***************************************************************************)
(* Program constants.                                                      *)
(***************************************************************************)
MAX_HISTORY == 1000          \* const size_t MAX_HISTORY = 1000
DefaultMaxRetries == 3       \* Impl() : max_retries_(3); SetMaxRetries default
BackoffBaseMs == 100         \* milliseconds(100 * (1 << retries))
MaxExactShift == 24          \* 100 * 2^24 < 2^31 <= 100 * 2^25
MIN_DSP_POWER_LEVEL == 0     \* static constexpr int MIN_DSP_POWER_LEVEL = 0
MAX_DSP_POWER_LEVEL == 5     \* static constexpr int MAX_DSP_POWER_LEVEL = 5
DefaultMaxBatchSize == 1     \* ModelConfig: size_t max_batch_size = 1
DefaultCpuThreshold == 80          \* Impl() : cpu_threshold_(80.0)
DefaultMemoryThreshold == 90       \* Impl() : memory_threshold_(90.0)
DefaultTemperatureThreshold == 80  \* Impl() : temperature_threshold_(80.0)
DefaultSamplingInterval == 1000    \* std::chrono::milliseconds sampling_interval{1000}

VARIABLES
    \* ---- core::ErrorHandler::Impl ----
    automatic_recovery_,     \* bool
    max_retries_,            \* int
    healthy_,                \* bool
    system_status_,          \* the status string, kept structured
    callbacks_,              \* vector<ErrorCallback>: behaviour of each listener
    recovery_strategies_,    \* unordered_map<ErrorCategory, RecoveryStrategy>
    error_history_,          \* vector<ErrorContext>
    eh_mutex_,               \* "free", or "deadlocked" (held by a thread that never returns)
    \* what the caller of the last ErrorHandler operation observed
    eh_obs,
    \* history variables used only to state properties
    reports,                 \* HandleError calls that recorded an error
    critical_seen,           \* a Critical error was recorded since construction/ResetSystem
    eh_threads,              \* client threads inside HandleError / AttemptRecovery:
                             \* where each is, its context and its loop counter
    \* ---- the build, the calling thread, the vendor driver ----
    build_aarch64,           \* __aarch64__ is defined in this build
    caller,                  \* "running", or "hung" (blocked in a call that never returns)
    apu_state,               \* what NeuroPilotGetHardwareInfo would answer now
    \* ---- one hardware::HardwareAccelerator object ----
    acc_kind,                \* "none" (no object), "Qualcomm" or "MTK"
    neuropilot_handle_,      \* MTKAccelerator::Impl: "null" or "open"
    dsp_power_level_,        \* QualcommAccelerator::Impl
    current_power_profile_,  \* QualcommAccelerator::Impl
    acc_num_threads_,        \* QualcommAccelerator::Impl::num_threads_ /
                             \* MTKAccelerator::Impl::thread_count_
    acc_obs,                 \* what the caller of the last accelerator operation observed
    acc_initialized,         \* history: Initialize has returned SUCCESS on this object
    acc_released,            \* history: ReleaseResources has been called on this object
    error_handler_,          \* MTKAccelerator::Impl::error_handler_: the messages in
                             \* the error history of the accelerator's own ErrorHandler
    \* ---- inference::ModelEngine::Impl ----
    accelerator_,            \* unique_ptr: "null", or "held" (the accelerator object above)
    format_,                 \* ModelFormat; "indeterminate" until LoadModel assigns it
    config_,                 \* ModelConfig: max_batch_size, enable_optimization
    loaded_,                 \* formats whose runtime objects have been set up by a load
    hw_acceleration_enabled_,
    last_error_,
    num_threads_,            \* ModelEngine::Impl::num_threads_
    eng_obs,                 \* what the caller of the last engine operation observed
    \* ---- monitoring::PerformanceMonitor::Impl ----
    monitoring_,             \* bool, written by Start/StopMonitoring, read by the loop
    mon_config_,             \* MonitoringConfig: the per-metric flags
    monitor_thread_,         \* where the sampling thread is: "none" (no thread, or
                             \* joined), "check", "update", "thresholds", "sleep", "exited"
    current_metrics_,        \* <<>> until first written, then <<the latest sample>>
    metrics_history_,        \* vector<PerformanceMetrics>
    alert_callbacks_,        \* number of registered alert callbacks
    cpu_threshold_,
    memory_threshold_,
    temperature_threshold_,
    ctl_pc,                  \* the controlling thread: "idle", or "joining" inside StopMonitoring
    alerts,                  \* history: <<callback, message>> of every alert callback call
    stopped,                 \* history: StopMonitoring returned and StartMonitoring
                             \* has not been called since
    mon_mutex_,              \* mutex_: "free", or "query" while the querying thread
                             \* owns it (the sampling thread locks and unlocks
                             \* within one step)
    query,                   \* the querying thread: the call it is in, where it is,
                             \* and what it has read
    \* ---- benchmark::BenchmarkManager::Impl and one RunBenchmark call ----
    initialized_,            \* bool
    bench_config,            \* the BenchmarkConfig argument of the call
    bench_pc,                \* "idle", "warm_up", "batch", "run", "returned", "threw"
    batch_index,             \* position of the outer loop in config.batch_sizes
    run,                     \* the inner loop counter
    results,                 \* std::vector<BenchmarkResult> results
    \* ---- the clock of the timed monitoring scenario (milliseconds) ----
    clock_now,                     \* time since StartMonitoring was called
    sleep_until,             \* earliest time the current sleep_for returns
    deadline,                \* latest time of the sampling thread's next step
    cleared_at,              \* time StopMonitoring cleared monitoring_, or -1
    \* ---- client threads of one PerformanceMonitor, statement by statement ----
    clients,                 \* per client thread: where it is in Start/StopMonitoring
    loops,                   \* MonitoringLoop invocations that have not returned
    process                  \* "running", or "terminated" after std::terminate

eh_vars == <<automatic_recovery_, max_retries_, healthy_, system_status_,
             callbacks_, recovery_strategies_, error_history_, eh_mutex_,
             eh_obs, reports, critical_seen, eh_threads>>

env_vars == <<build_aarch64, caller, apu_state>>

acc_own_vars == <<acc_kind, neuropilot_handle_, dsp_power_level_,
                  current_power_profile_, acc_obs, acc_initialized, acc_released,
                  acc_num_threads_>>
acc_vars == <<acc_own_vars, error_handler_>>

eng_vars == <<accelerator_, format_, config_, loaded_, hw_acceleration_enabled_,
              last_error_, eng_obs, num_threads_>>

mon_vars == <<monitoring_, mon_config_, monitor_thread_, current_metrics_,
              metrics_history_, alert_callbacks_, cpu_threshold_, memory_threshold_,
              temperature_threshold_, ctl_pc, alerts, stopped, mon_mutex_, query>>

bench_vars == <<initialized_, bench_config, bench_pc, batch_index, run, results>>

clock_vars == <<clock_now, sleep_until, deadline, cleared_at>>

ctl_vars == <<clients, loops, process>>

vars == <<eh_vars, env_vars, acc_vars, eng_vars, mon_vars, bench_vars, clock_vars,
          ctl_vars>>

(***************************************************************************)
(* core::ErrorHandler                                                      *)
(***************************************************************************)
Severities == {"INFO", "WARNING", "ERROR", "CRITICAL"}
Categories == {"HARDWARE", "MODEL", "MEMORY", "SYSTEM", "SECURITY", "NETWORK"}

\* A listener either returns or throws; "null" is an empty std::function.
CallbackKinds == {"returns", "throws"}
\* listeners that call back into the handler that is notifying them; each of
\* these operations begins with std::lock_guard<std::mutex> lock(mutex_)
ReentrantKinds == {"GetErrorHistory", "ReportError", "ClearErrorHistory",
                   "RegisterErrorCallback", "ResetSystem"}
\* A strategy, as a function of the attempt number (0-based).
StrategyKinds == {"ReturnsFalse", "Throws", "FalseThenThrow", "ReturnsTrue",
                  "TrueOnSecond", "ThrowThenTrue"}
AlwaysFails == {"ReturnsFalse", "Throws", "FalseThenThrow"}

StrategyOutcome(kind, attempt) ==
    CASE kind = "ReturnsFalse" -> "false"
      [] kind = "Throws" -> "throw"
      [] kind = "FalseThenThrow" -> IF attempt % 2 = 0 THEN "false" ELSE "throw"
      [] kind = "ReturnsTrue" -> "true"
      [] kind = "TrueOnSecond" -> IF attempt >= 1 THEN "true" ELSE "false"
      [] kind = "ThrowThenTrue" -> IF attempt >= 1 THEN "true" ELSE "throw"

\* What a second lock() of the non-recursive std::mutex by the thread that
\* already owns it can do (undefined behaviour): block forever, or throw
\* std::system_error(resource_deadlock_would_occur).
RelockOutcomes == {"deadlock", "throw"}

NoObs == [op |-> "none"]

\* threads that call into one handler concurrently
Threads == {"t1", "t2"}
NoContext == [message |-> "", severity |-> "INFO", category |-> "SYSTEM",
              component |-> "", timestamp |-> 0]
IdleThread == [pc |-> "idle", context |-> NoContext, retries |-> 0]

EHInit ==
    /\ automatic_recovery_ = TRUE
    /\ max_retries_ = DefaultMaxRetries
    /\ healthy_ = TRUE
    /\ system_status_ = [kind |-> "empty"]
    /\ callbacks_ = <<>>
    /\ recovery_strategies_ = [c \in Categories |-> "none"]
    /\ error_history_ = <<>>
    /\ eh_mutex_ = "free"
    /\ eh_obs = NoObs
    /\ reports = 0
    /\ critical_seen = FALSE
    /\ eh_threads = [t \in Threads |-> IdleThread]

RegisterErrorCallback(callback) ==
    /\ IF callback = "null"
       THEN UNCHANGED <<callbacks_>>
       ELSE /\ eh_mutex_ = "free"
            /\ callbacks_' = Append(callbacks_, callback)
    /\ eh_obs' = [op |-> "RegisterErrorCallback"]
    /\ UNCHANGED <<automatic_recovery_, max_retries_, healthy_, system_status_,
                   recovery_strategies_, error_history_, eh_mutex_, reports,
                   critical_seen>>

RegisterRecoveryStrategy(category, strategy) ==
    /\ IF strategy = "null"
       THEN UNCHANGED <<recovery_strategies_>>
       ELSE /\ eh_mutex_ = "free"
            /\ recovery_strategies_' = [recovery_strategies_ EXCEPT ![category] = strategy]
    /\ eh_obs' = [op |-> "RegisterRecoveryStrategy"]
    /\ UNCHANGED <<automatic_recovery_, max_retries_, healthy_, system_status_,
                   callbacks_, error_history_, eh_mutex_, reports, critical_seen>>

\* history update of HandleError: erase(begin()) at the cap, then push_back
StoreInHistoryNoEvict(history, context) == Append(history, context)
StoreInHistory(history, context) ==
    IF Len(history) >= MAX_HISTORY
    THEN Append(Tail(history), context)
    ELSE Append(history, context)

\* the "Notify callbacks" loop of HandleError: every exception is caught
RECURSIVE NotifyCallbacks(_, _, _)
NotifyCallbacksNoCatch(cbs, i, log) ==
    IF i > Len(cbs) THEN [notified |-> log, escaped |-> "none"]
    ELSE IF cbs[i] = "throws"
         THEN [notified |-> Append(log, i), escaped |-> "listener"]
         ELSE NotifyCallbacks(cbs, i + 1, Append(log, i))
NotifyCallbacks(cbs, i, log) ==
    IF i > Len(cbs) THEN [notified |-> log, escaped |-> "none"]
    ELSE NotifyCallbacks(cbs, i + 1, Append(log, i))

\* position of the first listener that calls back into the handler, 0 when
\* there is none
FirstReentrant(cbs) ==
    IF \E i \in 1 .. Len(cbs) : cbs[i] \in ReentrantKinds
    THEN CHOOSE i \in 1 .. Len(cbs) :
            /\ cbs[i] \in ReentrantKinds
            /\ \A j \in 1 .. i - 1 : cbs[j] \notin ReentrantKinds
    ELSE 0

\* 100 * (1 << retries) in int arithmetic.  The product fits a 32-bit int
\* only while retries <= MaxExactShift; beyond that the signed multiplication
\* overflows and the machine multiplication leaves the low 32 bits, read as
\* a signed int; the shift uses the low five bits of its count.  With
\* 100 = 25 * 2^2 the low 32 bits of 25 * 2^(s+2) are those of
\* (25 mod 2^(30-s)) * 2^(s+2).
BackoffMs(retries) ==
    LET s == retries % 32 IN
    IF s >= 30 THEN 0
    ELSE LET w == 30 - s
             m == (BackoffBaseMs \div 4) % (2 ^ w)
             ms == IF 2 * m >= 2 ^ w THEN m - 2 ^ w ELSE m
         IN (ms * (2 ^ (s + 1))) * 2

\* the retry loop of AttemptRecovery: both catch clauses swallow what the
\* strategy throws, so a throw is a failed attempt like a false
RECURSIVE RetryLoop(_, _, _, _, _)
RetryLoopOffByOne(kind, max, retries, invocations, delays) ==
    IF ~(retries <= max)
    THEN [result |-> FALSE, invocations |-> invocations, delays |-> delays,
          escaped |-> FALSE]
    ELSE IF StrategyOutcome(kind, retries) = "true"
         THEN [result |-> TRUE, invocations |-> invocations + 1, delays |-> delays,
               escaped |-> FALSE]
         ELSE RetryLoop(kind, max, retries + 1, invocations + 1,
                        IF retries + 1 < max
                        THEN Append(delays, BackoffMs(retries + 1)) ELSE delays)
RetryLoopNoCatch(kind, max, retries, invocations, delays) ==
    IF ~(retries < max)
    THEN [result |-> FALSE, invocations |-> invocations, delays |-> delays,
          escaped |-> FALSE]
    ELSE IF StrategyOutcome(kind, retries) = "true"
         THEN [result |-> TRUE, invocations |-> invocations + 1, delays |-> delays,
               escaped |-> FALSE]
         ELSE IF StrategyOutcome(kind, retries) = "throw"
         THEN [result |-> FALSE, invocations |-> invocations + 1, delays |-> delays,
               escaped |-> TRUE]
         ELSE RetryLoop(kind, max, retries + 1, invocations + 1,
                        IF retries + 1 < max
                        THEN Append(delays, BackoffMs(retries + 1)) ELSE delays)
RetryLoop(kind, max, retries, invocations, delays) ==
    IF ~(retries < max)
    THEN [result |-> FALSE, invocations |-> invocations, delays |-> delays,
          escaped |-> FALSE]
    ELSE IF StrategyOutcome(kind, retries) = "true"
         THEN [result |-> TRUE, invocations |-> invocations + 1, delays |-> delays,
               escaped |-> FALSE]
         ELSE RetryLoop(kind, max, retries + 1, invocations + 1,
                        IF retries + 1 < max
                        THEN Append(delays, BackoffMs(retries + 1)) ELSE delays)

\* body of AttemptRecovery once the lock is held
AttemptRecoveryBodyAnyCategory(context) ==
    IF \A c \in Categories : recovery_strategies_[c] = "none"
    THEN [result |-> FALSE, invocations |-> 0, delays |-> <<>>, escaped |-> FALSE]
    ELSE RetryLoop(recovery_strategies_[CHOOSE c \in Categories :
                                           recovery_strategies_[c] # "none"],
                   max_retries_, 0, 0, <<>>)
AttemptRecoveryBody(context) ==
    IF recovery_strategies_[context.category] = "none"
    THEN [result |-> FALSE, invocations |-> 0, delays |-> <<>>, escaped |-> FALSE]
    ELSE RetryLoop(recovery_strategies_[context.category], max_retries_, 0, 0, <<>>)

\* bool AttemptRecovery(context), called through the public interface
AttemptRecovery(context) ==
    /\ eh_mutex_ = "free"
    /\ LET r == AttemptRecoveryBody(context) IN
       eh_obs' = [op |-> "AttemptRecovery", context |-> context,
                  result |-> r.result, invocations |-> r.invocations,
                  delays |-> r.delays, escaped |-> r.escaped]
    /\ UNCHANGED <<automatic_recovery_, max_retries_, healthy_, system_status_,
                   callbacks_, recovery_strategies_, error_history_, eh_mutex_,
                   reports, critical_seen>>

UpdateSystemHealth(context) ==
    /\ healthy_' = IF context.severity = "CRITICAL" THEN FALSE ELSE healthy_
    /\ system_status_' = [kind |-> "last_error", message |-> context.message,
                          unhealthy |-> ~healthy_']

\* void HandleError(context).  mutex_ is held from the first line to the
\* return.  A listener that calls back into the handler locks mutex_ again on
\* the same thread, and so does AttemptRecovery: the relock either blocks for
\* ever or throws std::system_error; thrown inside a listener it is caught by
\* the notification loop, which goes on with the next listener.
HandleError(context) ==
    /\ eh_mutex_ = "free"
    /\ error_history_' = StoreInHistory(error_history_, context)
    /\ reports' = reports + 1
    /\ critical_seen' = (critical_seen \/ context.severity = "CRITICAL")
    /\ LET n == NotifyCallbacks(callbacks_, 1, <<>>)
           k == FirstReentrant(callbacks_)
       IN
       IF n.escaped # "none"
       THEN \* a listener's exception leaves HandleError
            /\ eh_obs' = [op |-> "HandleError", context |-> context,
                          notified |-> n.notified, escaped |-> n.escaped,
                          recovery_called |-> FALSE, returned |-> FALSE]
            /\ UNCHANGED <<healthy_, system_status_, eh_mutex_>>
       ELSE \E o \in RelockOutcomes :
            IF k > 0 /\ o = "deadlock"
            THEN \* listener k never returns from its call into the handler
                 /\ eh_mutex_' = "deadlocked"
                 /\ eh_obs' = [op |-> "HandleError", context |-> context,
                               notified |-> SubSeq(n.notified, 1, k),
                               escaped |-> "none",
                               recovery_called |-> FALSE, returned |-> FALSE]
                 /\ UNCHANGED <<healthy_, system_status_>>
            ELSE IF automatic_recovery_
            THEN \* AttemptRecovery locks mutex_, which this thread already holds
                 /\ eh_mutex_' = IF o = "deadlock" THEN "deadlocked" ELSE "free"
                 /\ eh_obs' = [op |-> "HandleError", context |-> context,
                               notified |-> n.notified,
                               escaped |-> IF o = "throw" THEN "system_error" ELSE "none",
                               recovery_called |-> TRUE, returned |-> FALSE]
                 /\ UNCHANGED <<healthy_, system_status_>>
            ELSE /\ UpdateSystemHealth(context)
                 /\ eh_obs' = [op |-> "HandleError", context |-> context,
                               notified |-> n.notified, escaped |-> "none",
                               recovery_called |-> FALSE, returned |-> TRUE]
                 /\ UNCHANGED <<eh_mutex_>>
    /\ UNCHANGED <<automatic_recovery_, max_retries_, callbacks_, recovery_strategies_>>

\* ReportError of core/error_handler.cpp: every message is forwarded and the
\* component is stored as given
ReportErrorUnchecked(message, severity, category, component, now) ==
    HandleError([message |-> message, severity |-> severity,
                 category |-> category, component |-> component,
                 timestamp |-> now])

\* void ReportError(message, severity, category, component); `now` is the value
\* of system_clock::now() that the call reads
ReportError(message, severity, category, component, now) ==
    IF message = ""
    THEN /\ eh_obs' = [op |-> "ReportError", dropped |-> TRUE]
         /\ UNCHANGED <<automatic_recovery_, max_retries_, healthy_, system_status_,
                        callbacks_, recovery_strategies_, error_history_, eh_mutex_,
                        reports, critical_seen>>
    ELSE HandleError([message |-> message, severity |-> severity,
                      category |-> category,
                      component |-> IF component = "" THEN "Unknown" ELSE component,
                      timestamp |-> now])

SetAutomaticRecovery(enabled) ==
    /\ automatic_recovery_' = enabled
    /\ eh_obs' = [op |-> "SetAutomaticRecovery"]
    /\ UNCHANGED <<max_retries_, healthy_, system_status_, callbacks_,
                   recovery_strategies_, error_history_, eh_mutex_, reports,
                   critical_seen>>

SetMaxRetries(retries) ==
    /\ max_retries_' = IF retries < 0 THEN DefaultMaxRetries ELSE retries
    /\ eh_obs' = [op |-> "SetMaxRetries"]
    /\ UNCHANGED <<automatic_recovery_, healthy_, system_status_, callbacks_,
                   recovery_strategies_, error_history_, eh_mutex_, reports,
                   critical_seen>>

\* std::vector<ErrorContext> GetErrorHistory() const: a copy, taken under the lock
GetErrorHistory == error_history_

\* bool IsSystemHealthy() const: reads healthy_ without the lock
IsSystemHealthy == healthy_

ClearErrorHistory ==
    /\ eh_mutex_ = "free"
    /\ error_history_' = <<>>
    /\ eh_obs' = [op |-> "ClearErrorHistory"]
    /\ UNCHANGED <<automatic_recovery_, max_retries_, healthy_, system_status_,
                   callbacks_, recovery_strategies_, eh_mutex_, reports,
                   critical_seen>>

ResetSystem ==
    /\ eh_mutex_ = "free"
    /\ error_history_' = <<>>
    /\ healthy_' = TRUE
    /\ system_status_' = [kind |-> "reset"]
    /\ critical_seen' = FALSE
    /\ eh_obs' = [op |-> "ResetSystem"]
    /\ UNCHANGED <<automatic_recovery_, max_retries_, callbacks_,
                   recovery_strategies_, eh_mutex_, reports>>

\* static_cast<int>(error.severity) and static_cast<int>(error.category):
\* the position of the enumerator in its enum
SeverityOrdinalSaturated(severity) ==
    CASE severity = "INFO" -> 0
      [] severity = "WARNING" -> 1
      [] severity = "ERROR" -> 2
      [] severity = "CRITICAL" -> 2
SeverityOrdinal(severity) ==
    CASE severity = "INFO" -> 0
      [] severity = "WARNING" -> 1
      [] severity = "ERROR" -> 2
      [] severity = "CRITICAL" -> 3
CategoryOrdinal(category) ==
    CASE category = "HARDWARE" -> 0
      [] category = "MODEL" -> 1
      [] category = "MEMORY" -> 2
      [] category = "SYSTEM" -> 3
      [] category = "SECURITY" -> 4
      [] category = "NETWORK" -> 5

\* the JSON array ExportErrorLogs builds: one object per history entry, in
\* history order; strings stay strings, the enums become ints
ExportDocument(history) ==
    [i \in 1 .. Len(history) |->
        [message |-> history[i].message,
         severity |-> SeverityOrdinal(history[i].severity),
         category |-> CategoryOrdinal(history[i].category),
         component |-> history[i].component,
         timestamp |-> history[i].timestamp]]

\* reading the document back: the ints are cast to the enums again
ParseDocument(document) ==
    [i \in 1 .. Len(document) |->
        [message |-> document[i].message,
         severity |-> CHOOSE sv \in Severities :
                         SeverityOrdinal(sv) = document[i].severity,
         category |-> CHOOSE c \in Categories :
                         CategoryOrdinal(c) = document[i].category]]

\* bool ExportErrorLogs(path) const; `opens` tells whether the file at a
\* non-empty path can be opened for writing
ExportErrorLogs(path, opens) ==
    /\ IF path = ""
       THEN eh_obs' = [op |-> "ExportErrorLogs", ret |-> FALSE, document |-> <<>>]
       ELSE /\ eh_mutex_ = "free"
            /\ eh_obs' = IF opens
                         THEN [op |-> "ExportErrorLogs", ret |-> TRUE,
                               document |-> ExportDocument(error_history_)]
                         ELSE [op |-> "ExportErrorLogs", ret |-> FALSE,
                               document |-> <<>>]
    /\ UNCHANGED <<automatic_recovery_, max_retries_, healthy_, system_status_,
                   callbacks_, recovery_strategies_, error_history_, eh_mutex_,
                   reports, critical_seen>>

(***************************************************************************)
(* core::ErrorHandler, step by step.  The operations below are the same    *)
(* HandleError, ReportError and AttemptRecovery, cut at the points where   *)
(* a thread can wait or be overtaken: taking mutex_, the strategy call,    *)
(* the backoff sleep.  While a thread owns the mutex eh_mutex_ is its      *)
(* name.                                                                   *)
(***************************************************************************)

\* std::lock_guard<std::mutex> lock(mutex_) can proceed
MutexAcquirableAlways(t) == TRUE
MutexAcquirable(t) == eh_mutex_ = "free"

\* thread t is executing the strategy registered for category c
InStrategy(t, c) ==
    eh_threads[t].pc = "strategy" /\ eh_threads[t].context.category = c

\* a client thread enters AttemptRecovery(context)
ThreadCallAttemptRecovery(t, context) ==
    /\ eh_threads[t].pc = "idle"
    /\ eh_threads' = [eh_threads EXCEPT ![t] =
                        [pc |-> "AttemptRecovery:lock", context |-> context,
                         retries |-> 0]]
    /\ UNCHANGED <<automatic_recovery_, max_retries_, healthy_, system_status_,
                   callbacks_, recovery_strategies_, error_history_, eh_mutex_,
                   eh_obs, reports, critical_seen>>

\* a client thread enters HandleError(context)
ThreadCallHandleError(t, context) ==
    /\ eh_threads[t].pc = "idle"
    /\ eh_threads' = [eh_threads EXCEPT ![t] =
                        [pc |-> "HandleError:lock", context |-> context,
                         retries |-> 0]]
    /\ UNCHANGED <<automatic_recovery_, max_retries_, healthy_, system_status_,
                   callbacks_, recovery_strategies_, error_history_, eh_mutex_,
                   eh_obs, reports, critical_seen>>

\* a client thread enters ReportError(...), which builds the context and
\* calls HandleError, or returns at once for an empty message
ThreadCallReportError(t, message, severity, category, component, now) ==
    IF message = ""
    THEN /\ eh_threads[t].pc = "idle"
         /\ UNCHANGED eh_vars
    ELSE ThreadCallHandleError(t, [message |-> message, severity |-> severity,
                                   category |-> category,
                                   component |-> IF component = "" THEN "Unknown"
                                                 ELSE component,
                                   timestamp |-> now])

\* HandleError: lock, store in the history, notify the listeners
ThreadHandleErrorLock(t) ==
    /\ eh_threads[t].pc = "HandleError:lock"
    /\ MutexAcquirable(t)
    /\ eh_mutex_' = t
    /\ error_history_' = StoreInHistory(error_history_, eh_threads[t].context)
    /\ reports' = reports + 1
    /\ critical_seen' = (critical_seen \/ eh_threads[t].context.severity = "CRITICAL")
    /\ NotifyCallbacks(callbacks_, 1, <<>>).escaped = "none"
    /\ eh_threads' = [eh_threads EXCEPT ![t].pc = "HandleError:recover"]
    /\ UNCHANGED <<automatic_recovery_, max_retries_, healthy_, system_status_,
                   callbacks_, recovery_strategies_, eh_obs>>

\* HandleError: if (automatic_recovery_) AttemptRecovery(context);
ThreadHandleErrorRecover(t) ==
    /\ eh_threads[t].pc = "HandleError:recover"
    /\ eh_threads' = [eh_threads EXCEPT ![t].pc =
                        IF automatic_recovery_ THEN "AttemptRecovery:lock"
                        ELSE "HandleError:health"]
    /\ UNCHANGED <<automatic_recovery_, max_retries_, healthy_, system_status_,
                   callbacks_, recovery_strategies_, error_history_, eh_mutex_,
                   eh_obs, reports, critical_seen>>

\* HandleError: UpdateSystemHealth(context), unlock, return
ThreadHandleErrorHealth(t) ==
    /\ eh_threads[t].pc = "HandleError:health"
    /\ UpdateSystemHealth(eh_threads[t].context)
    /\ eh_mutex_' = "free"
    /\ eh_threads' = [eh_threads EXCEPT ![t] = IdleThread]
    /\ UNCHANGED <<automatic_recovery_, max_retries_, callbacks_,
                   recovery_strategies_, error_history_, eh_obs, reports,
                   critical_seen>>

\* AttemptRecovery: std::lock_guard lock(mutex_).  A thread that already
\* owns the mutex (it comes from HandleError) blocks forever or leaves both
\* functions by std::system_error, which unlocks HandleError's guard.
ThreadAttemptRecoveryLock(t) ==
    /\ eh_threads[t].pc = "AttemptRecovery:lock"
    /\ IF eh_mutex_ = t
       THEN \E o \in RelockOutcomes :
               IF o = "deadlock"
               THEN /\ eh_threads' = [eh_threads EXCEPT ![t].pc = "hung"]
                    /\ UNCHANGED eh_mutex_
               ELSE /\ eh_threads' = [eh_threads EXCEPT ![t] = IdleThread]
                    /\ eh_mutex_' = "free"
       ELSE /\ MutexAcquirable(t)
            /\ eh_mutex_' = t
            /\ eh_threads' = [eh_threads EXCEPT ![t].pc = "AttemptRecovery:find"]
    /\ UNCHANGED <<automatic_recovery_, max_retries_, healthy_, system_status_,
                   callbacks_, recovery_strategies_, error_history_, eh_obs,
                   reports, critical_seen>>

\* AttemptRecovery: recovery_strategies_.find(context.category)
ThreadAttemptRecoveryFind(t) ==
    /\ eh_threads[t].pc = "AttemptRecovery:find"
    /\ IF recovery_strategies_[eh_threads[t].context.category] = "none"
       THEN /\ eh_threads' = [eh_threads EXCEPT ![t] = IdleThread]
            /\ eh_mutex_' = "free"
       ELSE /\ eh_threads' = [eh_threads EXCEPT ![t].pc = "AttemptRecovery:while"]
            /\ UNCHANGED eh_mutex_
    /\ UNCHANGED <<automatic_recovery_, max_retries_, healthy_, system_status_,
                   callbacks_, recovery_strategies_, error_history_, eh_obs,
                   reports, critical_seen>>

\* AttemptRecovery: while (retries < max_retries_); leaving the loop returns
\* false and unlocks
ThreadAttemptRecoveryWhile(t) ==
    /\ eh_threads[t].pc = "AttemptRecovery:while"
    /\ IF eh_threads[t].retries < max_retries_
       THEN /\ eh_threads' = [eh_threads EXCEPT ![t].pc = "strategy"]
            /\ UNCHANGED eh_mutex_
       ELSE /\ eh_threads' = [eh_threads EXCEPT ![t] = IdleThread]
            /\ eh_mutex_' = "free"
    /\ UNCHANGED <<automatic_recovery_, max_retries_, healthy_, system_status_,
                   callbacks_, recovery_strategies_, error_history_, eh_obs,
                   reports, critical_seen>>

\* AttemptRecovery: it->second(context) returns or throws; true returns true
\* and unlocks, anything else counts the attempt
ThreadStrategyReturns(t) ==
    /\ eh_threads[t].pc = "strategy"
    /\ LET me == eh_threads[t]
           o == StrategyOutcome(recovery_strategies_[me.context.category], me.retries)
       IN IF o = "true"
          THEN /\ eh_threads' = [eh_threads EXCEPT ![t] = IdleThread]
               /\ eh_mutex_' = "free"
          ELSE /\ eh_threads' = [eh_threads EXCEPT ![t] =
                     [me EXCEPT !.retries = me.retries + 1,
                                !.pc = IF me.retries + 1 < max_retries_
                                       THEN "AttemptRecovery:sleep"
                                       ELSE "AttemptRecovery:while"]]
               /\ UNCHANGED eh_mutex_
    /\ UNCHANGED <<automatic_recovery_, max_retries_, healthy_, system_status_,
                   callbacks_, recovery_strategies_, error_history_, eh_obs,
                   reports, critical_seen>>

\* AttemptRecovery: sleep_for(backoff) returns; the mutex is held meanwhile
ThreadBackoffSleepReturns(t) ==
    /\ eh_threads[t].pc = "AttemptRecovery:sleep"
    /\ eh_threads' = [eh_threads EXCEPT ![t].pc = "AttemptRecovery:while"]
    /\ UNCHANGED <<automatic_recovery_, max_retries_, healthy_, system_status_,
                   callbacks_, recovery_strategies_, error_history_, eh_mutex_,
                   eh_obs, reports, critical_seen>>

(***************************************************************************)
(* hardware::QualcommAccelerator and hardware::MTKAccelerator              *)
(*                                                                         *)
(* A call either returns a value, or never returns ("hang"), or leaves by  *)
(* an exception ("throw").                                                 *)
(***************************************************************************)
AccKinds == {"Qualcomm", "MTK"}
PowerProfiles == {"LOW_POWER", "BALANCED", "HIGH_PERFORMANCE"}
ApuStates == {"available", "unavailable", "query_fails"}
NoAccObs == [op |-> "none"]
\* error codes that can stand for "not initialized": enum ErrorCode has no
\* NOT_INITIALIZED member, INITIALIZATION_FAILED is the nearest one
NotInitializedCodes == {"NOT_INITIALIZED", "INITIALIZATION_FAILED"}

\* No accelerator object exists yet.
AccInit ==
    /\ acc_kind = "none"
    /\ neuropilot_handle_ = "null"
    /\ dsp_power_level_ = MIN_DSP_POWER_LEVEL
    /\ current_power_profile_ = "BALANCED"
    /\ acc_obs = NoAccObs
    /\ acc_initialized = FALSE
    /\ acc_released = FALSE
    /\ acc_num_threads_ = 1
    /\ error_handler_ = <<>>

\* MTKAccelerator::Impl reports through its own core::ErrorHandler, which is
\* default-constructed (automatic recovery on): ReportError -> HandleError ->
\* AttemptRecovery locks the handler's mutex a second time.
AccReportError == {IF o = "deadlock" THEN "hang" ELSE "throw" : o \in RelockOutcomes}

\* the history of the accelerator's handler after a call that ended as `ret`:
\* a call that ended inside ReportError has gone through HandleError up to
\* the recovery call, so its context is stored
Reported(history, ret, message) ==
    IF ret \in AccReportError THEN StoreInHistory(history, message) ELSE history
AccReported(ret, message) ==
    /\ error_handler_' = Reported(error_handler_, ret, message)
    /\ Len(error_handler_') <= MaxAccReports

ConfigureHexagonDSPPower(level) ==
    ~(level < MIN_DSP_POWER_LEVEL \/ level > MAX_DSP_POWER_LEVEL)

\* LoadHexagonRuntime() is true; ConfigureThreadPool() is true because
\* num_threads_ is never set to a value <= 0; EnableHVXOptimization() is true
InitializeHexagonDSP(level) == ConfigureHexagonDSPPower(level)

CheckHexagonDSPAvailability == build_aarch64

\* outcomes of Initialize() on an accelerator of the given kind, handle and
\* power level: the result and the handle it leaves
InitializeOutcomes(kind, handle, level) ==
    IF kind = "Qualcomm"
    THEN {[ret |-> IF InitializeHexagonDSP(level) THEN "SUCCESS"
                   ELSE "INITIALIZATION_FAILED",
           handle |-> handle]}
    ELSE {[ret |-> "SUCCESS", handle |-> "open"]}
         \cup {[ret |-> o, handle |-> handle] : o \in AccReportError}
AccInitializeOutcomes ==
    InitializeOutcomes(acc_kind, neuropilot_handle_, dsp_power_level_)

\* outcomes of IsAvailable(): "true", "false", or a failed report
AccIsAvailableOutcomes ==
    IF acc_kind = "Qualcomm"
    THEN {IF CheckHexagonDSPAvailability THEN "true" ELSE "false"}
    ELSE IF neuropilot_handle_ = "null" THEN {"false"}
    ELSE IF apu_state = "query_fails" THEN AccReportError
    ELSE {IF apu_state = "available" THEN "true" ELSE "false"}

\* QualcommAccelerator::Impl::GetUtilization, in percent: 50 * (level / 5) * 1.5
GetUtilization ==
    LET u == (50 * dsp_power_level_ * 3) \div (MAX_DSP_POWER_LEVEL * 2)
    IN IF u < 100 THEN u ELSE 100
\* utilization readings the MediaTek driver may give, and the output vector
\* NeuroPilotExecute fills
DriverUtilization == {0, 60}
DriverOutput == <<1>>

\* outcomes of RunInference(input, output, metrics): the result, the output
\* vector afterwards, whether *metrics was written and the utilization put
\* there
AccRunInferenceOutcomes(input, output) ==
    IF acc_kind = "Qualcomm"
    THEN {[ret |-> IF input = <<>> THEN "HARDWARE_ERROR" ELSE "SUCCESS",
           out |-> IF input = <<>> THEN output ELSE input,
           wrote |-> TRUE, util |-> GetUtilization]}
    ELSE IF neuropilot_handle_ = "null"
         THEN {[ret |-> o, out |-> output, wrote |-> FALSE, util |-> 0]
               : o \in AccReportError}
         ELSE {[ret |-> "SUCCESS", out |-> DriverOutput, wrote |-> TRUE, util |-> u]
               : u \in DriverUtilization}
              \cup {[ret |-> o, out |-> DriverOutput, wrote |-> FALSE, util |-> 0]
                    : o \in AccReportError}

\* the client constructs an accelerator (replacing the previous object)
AccConstruct(kind) ==
    /\ caller = "running"
    /\ acc_kind' = kind
    /\ neuropilot_handle_' = "null"
    /\ dsp_power_level_' = MIN_DSP_POWER_LEVEL
    /\ current_power_profile_' = "BALANCED"
    /\ acc_initialized' = FALSE
    /\ acc_released' = FALSE
    /\ acc_num_threads_' = 1
    /\ error_handler_' = <<>>
    /\ acc_obs' = [op |-> "construct"]
    /\ UNCHANGED env_vars

AccInitialize ==
    /\ caller = "running"
    /\ acc_kind # "none"
    /\ \E o \in AccInitializeOutcomes :
          /\ neuropilot_handle_' = o.handle
          /\ acc_initialized' = (acc_initialized \/ o.ret = "SUCCESS")
          /\ acc_obs' = [op |-> "Initialize", ret |-> o.ret]
          /\ caller' = IF o.ret = "hang" THEN "hung" ELSE caller
          /\ AccReported(o.ret, "Failed to initialize NeuroPilot")
    /\ UNCHANGED <<build_aarch64, apu_state, acc_kind, dsp_power_level_,
                   current_power_profile_, acc_released, acc_num_threads_>>

AccIsAvailable ==
    /\ caller = "running"
    /\ acc_kind # "none"
    /\ \E o \in AccIsAvailableOutcomes :
          /\ acc_obs' = [op |-> "IsAvailable", ret |-> o]
          /\ caller' = IF o = "hang" THEN "hung" ELSE caller
          /\ AccReported(o, "Failed to get hardware info")
    /\ UNCHANGED <<build_aarch64, apu_state, acc_kind, neuropilot_handle_,
                   dsp_power_level_, current_power_profile_, acc_initialized,
                   acc_released, acc_num_threads_>>

\* bool QualcommAccelerator::SetDSPPowerLevel(int level)
SetDSPPowerLevelUnchecked(level) ==
    /\ caller = "running"
    /\ acc_kind = "Qualcomm"
    /\ dsp_power_level_' = level
    /\ acc_obs' = [op |-> "SetDSPPowerLevel", level |-> level,
                   ret |-> ConfigureHexagonDSPPower(level)]
    /\ UNCHANGED <<env_vars, acc_kind, neuropilot_handle_, current_power_profile_,
                   acc_initialized, acc_released, acc_num_threads_, error_handler_>>
SetDSPPowerLevel(level) ==
    /\ caller = "running"
    /\ acc_kind = "Qualcomm"
    /\ IF level < MIN_DSP_POWER_LEVEL \/ level > MAX_DSP_POWER_LEVEL
       THEN /\ UNCHANGED dsp_power_level_
            /\ acc_obs' = [op |-> "SetDSPPowerLevel", level |-> level, ret |-> FALSE]
       ELSE /\ dsp_power_level_' = level
            /\ acc_obs' = [op |-> "SetDSPPowerLevel", level |-> level,
                           ret |-> ConfigureHexagonDSPPower(level)]
    /\ UNCHANGED <<env_vars, acc_kind, neuropilot_handle_, current_power_profile_,
                   acc_initialized, acc_released, acc_num_threads_, error_handler_>>

\* the DSP power level the switch of SetPowerProfile assigns for a profile
ProfilePowerLevelRoundUp(profile) ==
    CASE profile = "LOW_POWER" -> MIN_DSP_POWER_LEVEL
      [] profile = "BALANCED" -> (MIN_DSP_POWER_LEVEL + MAX_DSP_POWER_LEVEL + 1) \div 2
      [] profile = "HIGH_PERFORMANCE" -> MAX_DSP_POWER_LEVEL
ProfilePowerLevel(profile) ==
    CASE profile = "LOW_POWER" -> MIN_DSP_POWER_LEVEL
      [] profile = "BALANCED" -> (MIN_DSP_POWER_LEVEL + MAX_DSP_POWER_LEVEL) \div 2
      [] profile = "HIGH_PERFORMANCE" -> MAX_DSP_POWER_LEVEL

\* ErrorCode QualcommAccelerator::SetPowerProfile(PowerProfile profile)
QualcommSetPowerProfile(profile) ==
    /\ caller = "running"
    /\ acc_kind = "Qualcomm"
    /\ IF profile \in PowerProfiles
       THEN /\ current_power_profile_' = profile
            /\ dsp_power_level_' = ProfilePowerLevel(profile)
            /\ acc_obs' = [op |-> "SetPowerProfile", profile |-> profile,
                           level_before |-> dsp_power_level_,
                           ret |-> IF ConfigureHexagonDSPPower(dsp_power_level_')
                                   THEN "SUCCESS" ELSE "HARDWARE_ERROR"]
       ELSE /\ UNCHANGED <<current_power_profile_, dsp_power_level_>>
            /\ acc_obs' = [op |-> "SetPowerProfile", profile |-> profile,
                           level_before |-> dsp_power_level_,
                           ret |-> "INVALID_INPUT"]
    /\ UNCHANGED <<env_vars, acc_kind, neuropilot_handle_, acc_initialized,
                   acc_released, acc_num_threads_, error_handler_>>

\* the message MTKAccelerator::Impl::SetPowerProfile reports when it fails
SetPowerProfileMessage(profile) ==
    IF neuropilot_handle_ = "null"
    THEN "Cannot set power profile - NeuroPilot not initialized"
    ELSE IF profile \notin PowerProfiles THEN "Invalid power profile specified"
    ELSE "Failed to set power config"

\* ErrorCode MTKAccelerator::Impl::SetPowerProfile(profile); `accepted` tells
\* whether NeuroPilotSetPowerConfig returns NEUROPILOT_NO_ERROR.  The switch
\* assigns current_power_profile_ before the driver is asked; every failure
\* is reported through the accelerator's ErrorHandler before the return.
MTKSetPowerProfile(profile, accepted) ==
    /\ caller = "running"
    /\ acc_kind = "MTK"
    /\ current_power_profile_' =
          IF neuropilot_handle_ # "null" /\ profile \in PowerProfiles
          THEN profile ELSE current_power_profile_
    /\ IF neuropilot_handle_ # "null" /\ profile \in PowerProfiles /\ accepted
       THEN /\ acc_obs' = [op |-> "SetPowerProfile", profile |-> profile,
                           level_before |-> dsp_power_level_, ret |-> "SUCCESS"]
            /\ UNCHANGED <<caller, error_handler_>>
       ELSE \E o \in AccReportError :
               /\ acc_obs' = [op |-> "SetPowerProfile", profile |-> profile,
                              level_before |-> dsp_power_level_, ret |-> o]
               /\ caller' = IF o = "hang" THEN "hung" ELSE caller
               /\ AccReported(o, SetPowerProfileMessage(profile))
    /\ UNCHANGED <<build_aarch64, apu_state, acc_kind, neuropilot_handle_,
                   dsp_power_level_, acc_initialized, acc_released, acc_num_threads_>>

\* PowerProfile QualcommAccelerator::GetCurrentPowerProfile() const: the
\* stored profile, translated back by a switch whose default is BALANCED
GetCurrentPowerProfile ==
    IF current_power_profile_ \in PowerProfiles THEN current_power_profile_
    ELSE "BALANCED"

\* bool QualcommAccelerator::SetNumThreads(int num_threads)
QualcommSetNumThreads(num_threads) ==
    /\ caller = "running"
    /\ acc_kind = "Qualcomm"
    /\ IF num_threads <= 0
       THEN /\ UNCHANGED acc_num_threads_
            /\ acc_obs' = [op |-> "SetNumThreads", arg |-> num_threads,
                           before |-> acc_num_threads_, ret |-> "false"]
       ELSE /\ acc_num_threads_' = num_threads
            /\ acc_obs' = [op |-> "SetNumThreads", arg |-> num_threads,
                           before |-> acc_num_threads_, ret |-> "true"]
    /\ UNCHANGED <<env_vars, acc_kind, neuropilot_handle_, dsp_power_level_,
                   current_power_profile_, acc_initialized, acc_released,
                   error_handler_>>

\* bool MTKAccelerator::SetThreadCount(int count): a non-positive count is
\* reported through the accelerator's ErrorHandler before `return false`
MTKSetThreadCount(count) ==
    /\ caller = "running"
    /\ acc_kind = "MTK"
    /\ IF count <= 0
       THEN \E o \in AccReportError :
               /\ UNCHANGED acc_num_threads_
               /\ acc_obs' = [op |-> "SetThreadCount", arg |-> count,
                              before |-> acc_num_threads_, ret |-> o]
               /\ caller' = IF o = "hang" THEN "hung" ELSE caller
               /\ AccReported(o, "Invalid thread count specified")
       ELSE /\ acc_num_threads_' = count
            /\ acc_obs' = [op |-> "SetThreadCount", arg |-> count,
                           before |-> acc_num_threads_, ret |-> "true"]
            /\ UNCHANGED <<caller, error_handler_>>
    /\ UNCHANGED <<build_aarch64, apu_state, acc_kind, neuropilot_handle_,
                   dsp_power_level_, current_power_profile_, acc_initialized,
                   acc_released>>

\* void QualcommAccelerator::ReleaseResources(): resets the knobs; the last
\* step is SetDSPPowerLevel(MIN_DSP_POWER_LEVEL)
QualcommReleaseResources ==
    /\ caller = "running"
    /\ acc_kind = "Qualcomm"
    /\ dsp_power_level_' = MIN_DSP_POWER_LEVEL
    /\ acc_num_threads_' = 1
    /\ acc_released' = TRUE
    /\ acc_obs' = [op |-> "ReleaseResources"]
    /\ UNCHANGED <<env_vars, acc_kind, neuropilot_handle_, current_power_profile_,
                   acc_initialized, error_handler_>>

\* bool QualcommAccelerator::ResetState(): puts the members back to their
\* initial values and returns InitializeHexagonDSP()
QualcommResetState ==
    /\ caller = "running"
    /\ acc_kind = "Qualcomm"
    /\ dsp_power_level_' = MIN_DSP_POWER_LEVEL
    /\ current_power_profile_' = "BALANCED"
    /\ acc_num_threads_' = 1
    /\ acc_obs' = [op |-> "ResetState",
                   ret |-> InitializeHexagonDSP(MIN_DSP_POWER_LEVEL)]
    /\ UNCHANGED <<env_vars, acc_kind, neuropilot_handle_, acc_initialized,
                   acc_released, error_handler_>>

\* the message MTKAccelerator::Impl::RunInference reports when it fails
RunInferenceMessage ==
    IF neuropilot_handle_ = "null" THEN "NeuroPilot handle is null"
    ELSE "Inference execution failed"

\* RunInference called on the accelerator directly
AccRunInference(input, output) ==
    /\ caller = "running"
    /\ acc_kind # "none"
    /\ \E o \in AccRunInferenceOutcomes(input, output) :
          /\ acc_obs' = [op |-> "RunInference", ret |-> o.ret, output |-> o.out,
                         wrote |-> o.wrote, util |-> o.util]
          /\ caller' = IF o.ret = "hang" THEN "hung" ELSE caller
          /\ AccReported(o.ret, RunInferenceMessage)
    /\ UNCHANGED <<build_aarch64, apu_state, acc_kind, neuropilot_handle_,
                   dsp_power_level_, current_power_profile_, acc_initialized,
                   acc_released, acc_num_threads_>>

\* the vendor driver's answer changes (the unit is claimed or freed elsewhere)
DriverChange(state) ==
    /\ apu_state' = state
    /\ UNCHANGED <<build_aarch64, caller, acc_vars>>

(***************************************************************************)
(* inference::ModelEngine                                                  *)
(***************************************************************************)
ModelFormats == {"TFLITE", "PYTORCH", "ONNX", "CUSTOM"}
RuntimeFormats == {"TFLITE", "PYTORCH", "ONNX"}
DefaultModelConfig == [max_batch_size |-> DefaultMaxBatchSize,
                       enable_optimization |-> TRUE]
NoEngObs == [op |-> "none"]

\* A float object that was never written: reading it gives any value.
IndeterminateFloats == {0, 37}
\* the output vector a TFLite / PyTorch / ONNX runtime produces
RuntimeOutput == <<2>>

\* ModelEngine::Impl(): format_ has no initializer
EngInit ==
    /\ accelerator_ = "null"
    /\ format_ = "indeterminate"
    /\ config_ = DefaultModelConfig
    /\ loaded_ = {}
    /\ hw_acceleration_enabled_ = TRUE
    /\ last_error_ = "SUCCESS"
    /\ eng_obs = NoEngObs
    /\ num_threads_ = 1

Abnormal == {"hang", "throw", "crash"}

\* bool Initialize(std::unique_ptr<HardwareAccelerator>): the client hands
\* over a newly constructed accelerator of the given kind; the engine stores
\* it (destroying the one it held) and calls its Initialize
EngineInitialize(kind) ==
    /\ caller = "running"
    /\ accelerator_' = "held"
    /\ acc_kind' = kind
    /\ dsp_power_level_' = MIN_DSP_POWER_LEVEL
    /\ current_power_profile_' = "BALANCED"
    /\ acc_released' = FALSE
    /\ acc_num_threads_' = 1
    /\ \E o \in InitializeOutcomes(kind, "null", MIN_DSP_POWER_LEVEL) :
          /\ neuropilot_handle_' = o.handle
          /\ acc_initialized' = (o.ret = "SUCCESS")
          /\ acc_obs' = [op |-> "Initialize", ret |-> o.ret]
          /\ caller' = IF o.ret = "hang" THEN "hung" ELSE caller
          /\ error_handler_' = Reported(<<>>, o.ret, "Failed to initialize NeuroPilot")
          /\ IF o.ret \in Abnormal
             THEN /\ eng_obs' = [op |-> "Initialize", ret |-> o.ret]
                  /\ UNCHANGED last_error_
             ELSE /\ eng_obs' = [op |-> "Initialize",
                                 ret |-> IF o.ret = "SUCCESS" THEN "true" ELSE "false"]
                  /\ last_error_' = IF o.ret = "SUCCESS" THEN last_error_ ELSE o.ret
    /\ UNCHANGED <<eh_vars, mon_vars, bench_vars, ctl_vars, clock_vars, build_aarch64, apu_state, format_, config_, loaded_,
                   hw_acceleration_enabled_, num_threads_>>

\* Load<Format>Model(): the file is missing, the runtime refuses it, or it loads
LoadOutcomes(file_exists) ==
    IF ~file_exists
    THEN {[ok |-> FALSE, err |-> "INVALID_INPUT"]}
    ELSE {[ok |-> TRUE, err |-> last_error_],
          [ok |-> FALSE, err |-> "INITIALIZATION_FAILED"]}

\* OptimizeModel(): without an accelerator it records INITIALIZATION_FAILED;
\* with one, the runtime may throw, which records HARDWARE_ERROR
OptimizeOutcomes(err) ==
    IF accelerator_ = "null" THEN {"INITIALIZATION_FAILED"} ELSE {err, "HARDWARE_ERROR"}

\* bool LoadModel(model_path, format, config)
LoadModel(file_exists, format, config) ==
    /\ caller = "running"
    /\ format_' = format
    /\ config_' = config
    /\ IF format \in ModelFormats
       THEN \E o \in LoadOutcomes(file_exists) :
              /\ loaded_' = IF o.ok THEN loaded_ \cup {format} ELSE loaded_
              /\ IF o.ok /\ config.enable_optimization
                 THEN last_error_' \in OptimizeOutcomes(o.err)
                 ELSE last_error_' = o.err
              /\ eng_obs' = [op |-> "LoadModel", ret |-> IF o.ok THEN "true" ELSE "false"]
       ELSE /\ eng_obs' = [op |-> "LoadModel", ret |-> "false"]
            /\ UNCHANGED <<loaded_, last_error_>>
    /\ UNCHANGED <<eh_vars, mon_vars, bench_vars, ctl_vars, clock_vars, env_vars, acc_vars, accelerator_,
                   hw_acceleration_enabled_, num_threads_>>

EnableHardwareAcceleration(enable) ==
    /\ caller = "running"
    /\ hw_acceleration_enabled_' = enable
    /\ eng_obs' = [op |-> "EnableHardwareAcceleration"]
    /\ UNCHANGED <<eh_vars, mon_vars, bench_vars, ctl_vars, clock_vars, env_vars, acc_vars, accelerator_, format_, config_,
                   loaded_, last_error_, num_threads_>>

\* void SetNumThreads(int num_threads): num_threads_ = std::max(1, num_threads)
EngineSetNumThreads(num_threads) ==
    /\ caller = "running"
    /\ num_threads_' = IF num_threads > 1 THEN num_threads ELSE 1
    /\ eng_obs' = [op |-> "SetNumThreads", arg |-> num_threads,
                   before |-> num_threads_, ret |-> "void"]
    /\ UNCHANGED <<eh_vars, mon_vars, bench_vars, ctl_vars, clock_vars, env_vars, acc_vars, accelerator_, format_, config_,
                   loaded_, hw_acceleration_enabled_, last_error_>>

\* formats the switch in RunCPUInference may see
FormatRead == IF format_ = "indeterminate" THEN ModelFormats \cup {"invalid"} ELSE {format_}

\* bool RunCPUInference(input, output): the fallback path.  `ran` tells
\* whether a backend was executed, `backend` how it ended.
RunCPUInference(input, output, err) ==
    IF input = <<>>
    THEN {[ret |-> "false", out |-> output, ran |-> FALSE, backend |-> "none",
           err |-> "INVALID_INPUT"]}
    ELSE UNION {
        IF f = "CUSTOM"
        THEN {[ret |-> "true", out |-> input, ran |-> TRUE, backend |-> "ok",
               err |-> err]}
        ELSE IF f \in RuntimeFormats
        THEN IF f \in loaded_
             THEN {[ret |-> "true", out |-> RuntimeOutput, ran |-> TRUE,
                    backend |-> "ok", err |-> err],
                   [ret |-> "false", out |-> output, ran |-> TRUE,
                    backend |-> "exception", err |-> "HARDWARE_ERROR"]}
             ELSE \* the runtime object was never set up
                  {[ret |-> "crash", out |-> output, ran |-> TRUE,
                    backend |-> "crash", err |-> err],
                   [ret |-> "false", out |-> output, ran |-> TRUE,
                    backend |-> "exception", err |-> "HARDWARE_ERROR"]}
        ELSE {[ret |-> "false", out |-> output, ran |-> FALSE, backend |-> "none",
               err |-> "INVALID_INPUT"]}
        : f \in FormatRead}

\* the condition under which RunInference delegates to the accelerator;
\* `available` is what accelerator_->IsAvailable() answered
UseAcceleratorUnchecked(available) ==
    hw_acceleration_enabled_ /\ accelerator_ = "held"
UseAccelerator(available) ==
    hw_acceleration_enabled_ /\ accelerator_ = "held" /\ available = "true"

\* metrics->gpu_usage_percent = hw_acceleration_enabled_ ?
\*     hw_metrics.utilizationPercent : 0.0f, where hw_metrics is a local that
\* only the accelerator's RunInference writes
GpuUsagePercent(wrote, util) ==
    IF hw_acceleration_enabled_
    THEN (IF wrote THEN {util} ELSE IndeterminateFloats)
    ELSE {0}

\* bool RunInference(input, output, metrics), metrics requested; `gpu` is
\* <<metrics->gpu_usage_percent>>, or <<>> when the call did not return
RunInference(input, output, err) ==
    UNION {
        IF available \in Abnormal
        THEN {[ret |-> available, out |-> output, acc_calls |-> 0, cpu_calls |-> 0,
               backend |-> "none", err |-> err, gpu |-> <<>>]}
        ELSE IF UseAccelerator(available)
        THEN UNION {
               IF r.ret \in Abnormal
               THEN {[ret |-> r.ret, out |-> r.out, acc_calls |-> 1, cpu_calls |-> 0,
                      backend |-> "accelerator", err |-> err, gpu |-> <<>>]}
               ELSE {[ret |-> IF r.ret = "SUCCESS" THEN "true" ELSE "false",
                      out |-> r.out, acc_calls |-> 1, cpu_calls |-> 0,
                      backend |-> "accelerator", err |-> err, gpu |-> <<g>>]
                     : g \in GpuUsagePercent(r.wrote, r.util)}
               : r \in AccRunInferenceOutcomes(input, output)}
        ELSE UNION {
               IF c.ret \in Abnormal
               THEN {[ret |-> c.ret, out |-> c.out, acc_calls |-> 0,
                      cpu_calls |-> IF c.ran THEN 1 ELSE 0,
                      backend |-> c.backend, err |-> c.err, gpu |-> <<>>]}
               ELSE {[ret |-> c.ret, out |-> c.out, acc_calls |-> 0,
                      cpu_calls |-> IF c.ran THEN 1 ELSE 0,
                      backend |-> c.backend, err |-> c.err, gpu |-> <<g>>]
                     : g \in GpuUsagePercent(FALSE, 0)}
               : c \in RunCPUInference(input, output, err)}
        : available \in IF hw_acceleration_enabled_ /\ accelerator_ = "held"
                        THEN AccIsAvailableOutcomes ELSE {"not asked"}}

\* what IsAvailable of the held accelerator can answer in the current state
HeldIsAvailable == IF accelerator_ = "held" THEN AccIsAvailableOutcomes ELSE {}

\* the message the held accelerator reports when an engine call ends inside
\* it: IsAvailable's when the hardware query fails (every item of the call
\* then ends there), else RunInference's
EngineReportMessage ==
    IF acc_kind = "MTK" /\ neuropilot_handle_ = "open" /\ apu_state = "query_fails"
    THEN "Failed to get hardware info"
    ELSE RunInferenceMessage

CallerAfter(ret) ==
    IF ret = "hang" THEN "hung" ELSE IF ret = "crash" THEN "crashed" ELSE caller

EngineRunInference(input, output) ==
    /\ caller = "running"
    /\ \E r \in RunInference(input, output, last_error_) :
          /\ eng_obs' = [op |-> "RunInference", input |-> input, before |-> output,
                         hw_enabled |-> hw_acceleration_enabled_,
                         is_available |-> HeldIsAvailable, result |-> r]
          /\ last_error_' = r.err
          /\ caller' = CallerAfter(r.ret)
          /\ AccReported(r.ret, EngineReportMessage)
    /\ UNCHANGED <<eh_vars, mon_vars, bench_vars, ctl_vars, clock_vars, build_aarch64, apu_state, acc_own_vars,
                   accelerator_, format_, config_, loaded_, hw_acceleration_enabled_,
                   num_threads_>>

\* the batch-size check of RunBatchInference
ExceedsMaxBatchOffByOne(n) == n > config_.max_batch_size + 1
ExceedsMaxBatch(n) == n > config_.max_batch_size

\* outputs.resize(n): keeps the first n elements, pads with empty vectors
RECURSIVE Resize(_, _)
Resize(outputs, n) ==
    IF Len(outputs) > n THEN SubSeq(outputs, 1, n)
    ELSE IF Len(outputs) = n THEN outputs
    ELSE Resize(Append(outputs, <<>>), n)

\* the loop of RunBatchInference from item i on; `acc` is the state so far,
\* `items` what RunInference returned for each item attempted
RECURSIVE BatchLoop(_, _, _)
BatchLoopStopAtFailure(inputs, i, acc) ==
    IF i > Len(inputs) THEN {acc}
    ELSE UNION {
        LET next == [ret |-> IF r.ret = "true" THEN acc.ret ELSE r.ret,
                     outs |-> SubSeq(acc.outs, 1, i - 1) \o <<r.out>>
                              \o SubSeq(acc.outs, i + 1, Len(acc.outs)),
                     items |-> Append(acc.items, r.ret),
                     gpus |-> IF acc.asked THEN acc.gpus \o r.gpu ELSE <<>>,
                     asked |-> acc.asked,
                     acc_calls |-> acc.acc_calls + r.acc_calls,
                     cpu_calls |-> acc.cpu_calls + r.cpu_calls,
                     err |-> r.err]
        IN IF r.ret # "true" THEN {next} ELSE BatchLoop(inputs, i + 1, next)
        : r \in RunInference(inputs[i], acc.outs[i], acc.err)}
BatchLoop(inputs, i, acc) ==
    IF i > Len(inputs) THEN {acc}
    ELSE UNION {
        LET next == [ret |-> IF r.ret = "true" THEN acc.ret ELSE r.ret,
                     outs |-> SubSeq(acc.outs, 1, i - 1) \o <<r.out>>
                              \o SubSeq(acc.outs, i + 1, Len(acc.outs)),
                     items |-> Append(acc.items, r.ret),
                     gpus |-> IF acc.asked THEN acc.gpus \o r.gpu ELSE <<>>,
                     asked |-> acc.asked,
                     acc_calls |-> acc.acc_calls + r.acc_calls,
                     cpu_calls |-> acc.cpu_calls + r.cpu_calls,
                     err |-> r.err]
        IN IF r.ret \in Abnormal THEN {next} ELSE BatchLoop(inputs, i + 1, next)
        : r \in RunInference(inputs[i], acc.outs[i], acc.err)}

\* bool RunBatchInference(inputs, outputs, metrics); `asked` says whether
\* metrics is not nullptr, and `gpus` then holds the gpu_usage_percent of
\* single_metrics for every item whose RunInference returned
RunBatchInference(inputs, outputs, err, asked) ==
    IF ExceedsMaxBatch(Len(inputs))
    THEN {[ret |-> "false", outs |-> outputs, items |-> <<>>, gpus |-> <<>>,
           asked |-> asked, acc_calls |-> 0, cpu_calls |-> 0, err |-> err]}
    ELSE BatchLoop(inputs, 1, [ret |-> "true", outs |-> Resize(outputs, Len(inputs)),
                               items |-> <<>>, gpus |-> <<>>, asked |-> asked,
                               acc_calls |-> 0, cpu_calls |-> 0, err |-> err])

\* what a caller that passes metrics = nullptr sees of a RunBatchInference
WithoutMetrics(r) ==
    [ret |-> r.ret, outs |-> r.outs, items |-> r.items,
     acc_calls |-> r.acc_calls, cpu_calls |-> r.cpu_calls, err |-> r.err]

\* InferenceMetrics batch_metrics; the struct has no member initializers, so
\* each float of the local starts with an indeterminate value
DefaultInitializedMetrics ==
    [inference_time_ms : IndeterminateFloats, memory_usage_mb : IndeterminateFloats,
     cpu_usage_percent : IndeterminateFloats, gpu_usage_percent : IndeterminateFloats]

MaxOf(a, b) == IF a < b THEN b ELSE a

\* the body of the loop of RunBatchInference after item i: time added, the
\* other three fields replaced by the larger value.  `readings[i]` holds what
\* the clock, GetCurrentMemoryUsage and GetCPUUsage gave RunInference for
\* item i, gpus[i] the gpu_usage_percent it stored.
RECURSIVE BatchMetrics(_, _, _, _)
BatchMetrics(readings, gpus, i, batch_metrics) ==
    IF i > Len(gpus) THEN batch_metrics
    ELSE BatchMetrics(readings, gpus, i + 1,
           [inference_time_ms |-> batch_metrics.inference_time_ms
                                   + readings[i].inference_time_ms,
            memory_usage_mb |-> MaxOf(batch_metrics.memory_usage_mb,
                                       readings[i].memory_usage_mb),
            cpu_usage_percent |-> MaxOf(batch_metrics.cpu_usage_percent,
                                         readings[i].cpu_usage_percent),
            gpu_usage_percent |-> MaxOf(batch_metrics.gpu_usage_percent, gpus[i])])

\* RunBatchInference(inputs, outputs, &metrics): as below, and *metrics is
\* written when the call gets past the size check and returns
EngineRunBatchInferenceMetrics(inputs, outputs, readings) ==
    /\ caller = "running"
    /\ \E r \in RunBatchInference(inputs, outputs, last_error_, TRUE),
          start \in DefaultInitializedMetrics :
          /\ eng_obs' = [op |-> "RunBatchInference", inputs |-> inputs,
                         before |-> outputs,
                         max_batch_size |-> config_.max_batch_size,
                         hw_enabled |-> hw_acceleration_enabled_,
                         is_available |-> HeldIsAvailable,
                         result |-> WithoutMetrics(r),
                         readings |-> SubSeq(readings, 1, Len(r.gpus)),
                         gpus |-> r.gpus,
                         metrics |-> IF ExceedsMaxBatch(Len(inputs))
                                        \/ r.ret \in Abnormal
                                     THEN <<>>
                                     ELSE <<BatchMetrics(readings, r.gpus, 1, start)>>]
          /\ last_error_' = r.err
          /\ caller' = CallerAfter(r.ret)
          /\ AccReported(r.ret, EngineReportMessage)
    /\ UNCHANGED <<eh_vars, mon_vars, bench_vars, ctl_vars, clock_vars, build_aarch64, apu_state, acc_own_vars,
                   accelerator_, format_, config_, loaded_, hw_acceleration_enabled_,
                   num_threads_>>

\* RunBatchInference(inputs, outputs): metrics is nullptr
EngineRunBatchInference(inputs, outputs) ==
    /\ caller = "running"
    /\ \E r \in RunBatchInference(inputs, outputs, last_error_, FALSE) :
          /\ eng_obs' = [op |-> "RunBatchInference", inputs |-> inputs,
                         before |-> outputs,
                         max_batch_size |-> config_.max_batch_size,
                         hw_enabled |-> hw_acceleration_enabled_,
                         is_available |-> HeldIsAvailable,
                         result |-> WithoutMetrics(r)]
          /\ last_error_' = r.err
          /\ caller' = CallerAfter(r.ret)
          /\ AccReported(r.ret, EngineReportMessage)
    /\ UNCHANGED <<eh_vars, mon_vars, bench_vars, ctl_vars, clock_vars, build_aarch64, apu_state, acc_own_vars,
                   accelerator_, format_, config_, loaded_, hw_acceleration_enabled_,
                   num_threads_>>

\* void ModelEngine::ReleaseResources(): destroys the accelerator, resets the
\* configuration; format_ and the runtime objects are left as they are
EngineReleaseResources ==
    /\ caller = "running"
    /\ accelerator_' = "null"
    /\ IF accelerator_ = "held"
       THEN /\ acc_kind' = "none"
            /\ neuropilot_handle_' = "null"
            /\ dsp_power_level_' = MIN_DSP_POWER_LEVEL
            /\ current_power_profile_' = "BALANCED"
            /\ acc_initialized' = FALSE
            /\ acc_released' = FALSE
            /\ acc_num_threads_' = 1
            /\ error_handler_' = <<>>
            /\ acc_obs' = NoAccObs
       ELSE UNCHANGED acc_vars
    /\ config_' = DefaultModelConfig
    /\ num_threads_' = 1
    /\ hw_acceleration_enabled_' = TRUE
    /\ last_error_' = "SUCCESS"
    /\ eng_obs' = [op |-> "ReleaseResources"]
    /\ UNCHANGED <<eh_vars, mon_vars, bench_vars, ctl_vars, clock_vars, env_vars, format_, loaded_>>

(***************************************************************************)
(* monitoring::PerformanceMonitor                                          *)
(*                                                                         *)
(* Two threads: the controlling thread, which calls the public operations, *)
(* and the sampling thread running MonitoringLoop.  UpdateMetrics and      *)
(* CheckThresholds hold mutex_ for their whole body and are one step each. *)
(***************************************************************************)
MaxSamples == 2        \* samples the loop takes in one behaviour

DefaultMonitoringConfig ==
    [monitor_cpu |-> TRUE, monitor_memory |-> TRUE, monitor_temperature |-> TRUE,
     sampling_interval |-> DefaultSamplingInterval]

\* the querying thread outside any call
NoQuery == [pc |-> "idle", op |-> "none", part |-> 0, locked_reads |-> 0,
            samples |-> 0, total_samples |-> 0]

\* Impl(): current_metrics_ is not initialized
MonInit ==
    /\ monitoring_ = FALSE
    /\ mon_config_ = DefaultMonitoringConfig
    /\ monitor_thread_ = "none"
    /\ current_metrics_ = <<>>
    /\ metrics_history_ = <<>>
    /\ alert_callbacks_ = 0
    /\ cpu_threshold_ = DefaultCpuThreshold
    /\ memory_threshold_ = DefaultMemoryThreshold
    /\ temperature_threshold_ = DefaultTemperatureThreshold
    /\ ctl_pc = "idle"
    /\ alerts = <<>>
    /\ stopped = FALSE
    /\ mon_mutex_ = "free"
    /\ query = NoQuery

\* void StartMonitoring(const MonitoringConfig& config)
StartMonitoring(config) ==
    /\ ctl_pc = "idle"
    /\ stopped' = FALSE
    /\ IF monitoring_
       THEN UNCHANGED <<monitoring_, mon_config_, monitor_thread_>>
       ELSE /\ mon_config_' = config
            /\ monitoring_' = TRUE
            /\ monitor_thread_' = "check"
    /\ UNCHANGED <<current_metrics_, metrics_history_, alert_callbacks_,
                   cpu_threshold_, memory_threshold_, temperature_threshold_,
                   ctl_pc, alerts>>

\* void StopMonitoring(), up to the join: returns at once when not
\* monitoring, else clears the flag and goes on to join a joinable thread
StopMonitoring ==
    /\ ctl_pc = "idle"
    /\ IF ~monitoring_
       THEN /\ stopped' = TRUE
            /\ UNCHANGED <<monitoring_, ctl_pc>>
       ELSE /\ monitoring_' = FALSE
            /\ IF monitor_thread_ # "none"
               THEN ctl_pc' = "joining" /\ UNCHANGED stopped
               ELSE stopped' = TRUE /\ UNCHANGED ctl_pc
    /\ UNCHANGED <<mon_config_, monitor_thread_, current_metrics_, metrics_history_,
                   alert_callbacks_, cpu_threshold_, memory_threshold_,
                   temperature_threshold_, alerts>>

\* monitor_thread_.join() returns once the thread function has returned
JoinReturnsEarly == TRUE
JoinReturns == monitor_thread_ = "exited"

\* the rest of StopMonitoring: join() returns, then StopMonitoring returns
StopMonitoringJoin ==
    /\ ctl_pc = "joining"
    /\ JoinReturns
    /\ ctl_pc' = "idle"
    /\ monitor_thread_' = IF monitor_thread_ = "exited" THEN "none" ELSE monitor_thread_
    /\ stopped' = TRUE
    /\ UNCHANGED <<monitoring_, mon_config_, current_metrics_, metrics_history_,
                   alert_callbacks_, cpu_threshold_, memory_threshold_,
                   temperature_threshold_, alerts>>

\* void RegisterAlertCallback(callback)
RegisterAlertCallback ==
    /\ ctl_pc = "idle"
    /\ mon_mutex_ = "free"
    /\ alert_callbacks_' = alert_callbacks_ + 1
    /\ UNCHANGED <<monitoring_, mon_config_, monitor_thread_, current_metrics_,
                   metrics_history_, cpu_threshold_, memory_threshold_,
                   temperature_threshold_, ctl_pc, alerts, stopped>>

\* void SetCPUThreshold(double threshold)
SetCPUThreshold(threshold) ==
    /\ ctl_pc = "idle"
    /\ cpu_threshold_' = threshold
    /\ UNCHANGED <<monitoring_, mon_config_, monitor_thread_, current_metrics_,
                   metrics_history_, alert_callbacks_, memory_threshold_,
                   temperature_threshold_, ctl_pc, alerts, stopped>>

\* values of monitoring_ the loop condition can read: the flag is a plain
\* bool written by another thread without synchronization, so after it was
\* cleared the loop may still read the old value true for a while
LoopReads == IF monitoring_ THEN {TRUE} ELSE {TRUE, FALSE}

\* while (monitoring_), for the values `reads` the condition can see and at
\* most `cap` samples explored
LoopCheck(reads, cap) ==
    /\ monitor_thread_ = "check"
    /\ \E seen \in reads :
          IF seen
          THEN /\ Len(metrics_history_) < cap
               /\ monitor_thread_' = "update"
          ELSE monitor_thread_' = "exited"
    /\ UNCHANGED <<monitoring_, mon_config_, current_metrics_, metrics_history_,
                   alert_callbacks_, cpu_threshold_, memory_threshold_,
                   temperature_threshold_, ctl_pc, alerts, stopped>>
MonitoringLoopCheck == LoopCheck(LoopReads, MaxSamples)

\* A double object that was never written: reading it gives any value, below
\* or above a threshold.
IndeterminateDoubles == {0, 95}

\* a field of the local `PerformanceMetrics metrics` is assigned only when
\* its flag is set; otherwise it keeps an indeterminate value
FieldValues(enabled, readings) == IF enabled THEN readings ELSE IndeterminateDoubles

\* void UpdateMetrics()
UpdateMetrics(cpu, memory, temperature) ==
    /\ monitor_thread_ = "update"
    /\ mon_mutex_ = "free"
    /\ LET metrics == [cpu_usage |-> cpu, memory_usage |-> memory,
                       temperature |-> temperature]
       IN /\ current_metrics_' = <<metrics>>
          /\ metrics_history_' = Append(metrics_history_, metrics)
    /\ monitor_thread_' = "thresholds"
    /\ UNCHANGED <<monitoring_, mon_config_, alert_callbacks_, cpu_threshold_,
                   memory_threshold_, temperature_threshold_, ctl_pc, alerts, stopped>>

\* TriggerAlert(message): every callback is called, exceptions are ignored
RECURSIVE TriggerAlert(_, _, _)
TriggerAlert(log, message, i) ==
    IF i > alert_callbacks_ THEN log
    ELSE TriggerAlert(Append(log, <<i, message>>), message, i + 1)

\* the comparison CheckThresholds makes for each metric
ExceedsThresholdOrEqual(value, threshold) == value >= threshold
ExceedsThreshold(value, threshold) == value > threshold

\* void CheckThresholds()
CheckThresholds ==
    /\ monitor_thread_ = "thresholds"
    /\ mon_mutex_ = "free"
    /\ LET m == current_metrics_[1]
           a1 == IF ExceedsThreshold(m.cpu_usage, cpu_threshold_)
                 THEN TriggerAlert(alerts, "CPU usage above threshold", 1) ELSE alerts
           a2 == IF ExceedsThreshold(m.memory_usage, memory_threshold_)
                 THEN TriggerAlert(a1, "Memory usage above threshold", 1) ELSE a1
           a3 == IF ExceedsThreshold(m.temperature, temperature_threshold_)
                 THEN TriggerAlert(a2, "Temperature above threshold", 1) ELSE a2
       IN alerts' = a3
    /\ monitor_thread_' = "sleep"
    /\ UNCHANGED <<monitoring_, mon_config_, current_metrics_, metrics_history_,
                   alert_callbacks_, cpu_threshold_, memory_threshold_,
                   temperature_threshold_, ctl_pc, stopped>>

\* std::this_thread::sleep_for(config_.sampling_interval) returns
MonitoringLoopSleep ==
    /\ monitor_thread_ = "sleep"
    /\ monitor_thread_' = "check"
    /\ UNCHANGED <<monitoring_, mon_config_, current_metrics_, metrics_history_,
                   alert_callbacks_, cpu_threshold_, memory_threshold_,
                   temperature_threshold_, ctl_pc, alerts, stopped>>

(***************************************************************************)
(* monitoring::PerformanceMonitor, StartMonitoring and StopMonitoring      *)
(* statement by statement, for client threads that call them at the same   *)
(* time.  Neither function takes mutex_; monitoring_ is a plain bool.      *)
(***************************************************************************)
Clients == {"c1", "c2"}
IdleClient == [pc |-> "idle", config |-> DefaultMonitoringConfig]

CtlInit ==
    /\ clients = [c \in Clients |-> IdleClient]
    /\ loops = 0
    /\ process = "running"

\* StartMonitoring: if (monitoring_) return;
StartMonitoringCheck(c, config) ==
    /\ process = "running"
    /\ clients[c].pc = "idle"
    /\ clients' = [clients EXCEPT ![c] =
                     IF monitoring_ THEN IdleClient
                     ELSE [pc |-> "Start:assign", config |-> config]]
    /\ UNCHANGED <<monitoring_, mon_config_, monitor_thread_, loops, process>>

\* StartMonitoring: config_ = config; monitoring_ = true;
StartMonitoringAssign(c) ==
    /\ process = "running"
    /\ clients[c].pc = "Start:assign"
    /\ mon_config_' = clients[c].config
    /\ monitoring_' = TRUE
    /\ clients' = [clients EXCEPT ![c].pc = "Start:spawn"]
    /\ UNCHANGED <<monitor_thread_, loops, process>>

\* StartMonitoring: monitor_thread_ = std::thread(&Impl::MonitoringLoop, this);
\* the new thread starts running, then the move assignment calls
\* std::terminate if monitor_thread_ is still joinable
StartMonitoringSpawn(c) ==
    /\ process = "running"
    /\ clients[c].pc = "Start:spawn"
    /\ loops' = loops + 1
    /\ IF monitor_thread_ # "none"
       THEN process' = "terminated" /\ UNCHANGED monitor_thread_
       ELSE monitor_thread_' = "check" /\ UNCHANGED process
    /\ clients' = [clients EXCEPT ![c] = IdleClient]
    /\ UNCHANGED <<monitoring_, mon_config_>>

\* StopMonitoring: if (!monitoring_) return;
StopMonitoringCheck(c) ==
    /\ process = "running"
    /\ clients[c].pc = "idle"
    /\ clients' = [clients EXCEPT ![c].pc =
                     IF monitoring_ THEN "Stop:clear" ELSE "idle"]
    /\ UNCHANGED <<monitoring_, mon_config_, monitor_thread_, loops, process>>

\* StopMonitoring: monitoring_ = false; if (monitor_thread_.joinable())
StopMonitoringClear(c) ==
    /\ process = "running"
    /\ clients[c].pc = "Stop:clear"
    /\ monitoring_' = FALSE
    /\ clients' = [clients EXCEPT ![c].pc =
                     IF monitor_thread_ # "none" THEN "Stop:join" ELSE "idle"]
    /\ UNCHANGED <<mon_config_, monitor_thread_, loops, process>>

\* StopMonitoring: monitor_thread_.join() returns once the loop has
\* returned; on a thread object that another client has joined meanwhile it
\* throws std::system_error
StopMonitoringJoined(c) ==
    /\ process = "running"
    /\ clients[c].pc = "Stop:join"
    /\ monitor_thread_ \in {"exited", "none"}
    /\ monitor_thread_' = "none"
    /\ clients' = [clients EXCEPT ![c] = IdleClient]
    /\ UNCHANGED <<monitoring_, mon_config_, loops, process>>

\* the loop of the thread monitor_thread_ owns reads monitoring_: it goes on
\* sampling, or returns
OwnedLoopIterates ==
    /\ process = "running"
    /\ monitor_thread_ = "check"
    /\ \E seen \in LoopReads :
          IF seen THEN UNCHANGED <<monitor_thread_, loops>>
          ELSE monitor_thread_' = "exited" /\ loops' = loops - 1
    /\ UNCHANGED <<monitoring_, mon_config_, clients, process>>

(***************************************************************************)
(* monitoring::PerformanceMonitor against a clock.  Times are in           *)
(* milliseconds.  sleep_for returns no earlier than the interval after it  *)
(* was called; every step of the sampling thread is taken at most          *)
(* MaxLatency after it became possible.                                    *)
(***************************************************************************)
ClockInit ==
    /\ clock_now = 0
    /\ sleep_until = 0
    /\ deadline = 0
    /\ cleared_at = -1

\* earliest return time of std::this_thread::sleep_for(interval) called at t
SleepForReturnsAtOnce(t, interval) == t
SleepFor(t, interval) == t + interval

\* values of monitoring_ the loop condition can read at time `clock_now`: the old
\* value true stays readable for at most StaleWindow after the flag was
\* cleared
TimedLoopReads ==
    IF monitoring_ THEN {TRUE}
    ELSE IF clock_now - cleared_at <= StaleWindow THEN {TRUE, FALSE} ELSE {FALSE}

\* the sampling thread is running or sleeping
SamplingThreadLive == monitor_thread_ \in {"check", "update", "thresholds", "sleep"}

(***************************************************************************)
(* monitoring::PerformanceMonitor, the public queries, step by step: a     *)
(* query takes mutex_, reads, and releases it.                             *)
(***************************************************************************)
\* queries that are one locked read
SimpleQueries == {"GetCurrentMetrics", "GetMetricsHistory", "GetAverageCPUUsage",
                  "GetPeakMemoryUsage", "GetAveragePowerConsumption",
                  "ExportMetrics"}
\* the getters GeneratePerformanceReport calls, in order
ReportParts == <<"GetAverageCPUUsage", "GetPeakMemoryUsage",
                 "GetAveragePowerConsumption">>

MonitorUnchangedByQuery ==
    UNCHANGED <<monitoring_, mon_config_, monitor_thread_, current_metrics_,
                metrics_history_, alert_callbacks_, cpu_threshold_,
                memory_threshold_, temperature_threshold_, ctl_pc, alerts, stopped>>

\* the querying thread enters a query
QueryCall(op) ==
    /\ query.pc = "idle"
    /\ query' = [NoQuery EXCEPT !.pc = "lock", !.op = op,
                                !.part = IF op = "GeneratePerformanceReport"
                                         THEN 1 ELSE 0]
    /\ UNCHANGED mon_mutex_
    /\ MonitorUnchangedByQuery

\* std::lock_guard<std::mutex> lock(mutex_) of a getter
QueryLock ==
    /\ query.pc = "lock"
    /\ mon_mutex_ = "free"
    /\ mon_mutex_' = "query"
    /\ query' = [query EXCEPT !.pc = "read"]
    /\ MonitorUnchangedByQuery

\* the getter reads metrics_history_ / current_metrics_, returns and unlocks;
\* inside GeneratePerformanceReport the next getter follows, and after the
\* last one the statement that reads metrics_history_.size()
QueryReadAndUnlock ==
    /\ query.pc = "read"
    /\ mon_mutex_' = "free"
    /\ query' = [query EXCEPT
                   !.locked_reads = query.locked_reads + 1,
                   !.samples = Len(metrics_history_),
                   !.pc = IF query.op # "GeneratePerformanceReport" THEN "idle"
                          ELSE IF query.part < Len(ReportParts) THEN "lock"
                          ELSE "size",
                   !.part = IF query.op = "GeneratePerformanceReport"
                               /\ query.part < Len(ReportParts)
                            THEN query.part + 1 ELSE query.part]
    /\ MonitorUnchangedByQuery

\* GeneratePerformanceReport: report["total_samples"] =
\*     static_cast<int>(metrics_history_.size()); no lock is taken here
QueryReadSize ==
    /\ query.pc = "size"
    /\ query' = [query EXCEPT !.pc = "idle",
                              !.total_samples = Len(metrics_history_)]
    /\ UNCHANGED mon_mutex_
    /\ MonitorUnchangedByQuery

(***************************************************************************)
(* benchmark::BenchmarkManager: one RunBenchmark call, cut at the warm-up  *)
(* and at each iteration of the two loops.                                 *)
(***************************************************************************)
MaxBenchRuns == 3      \* largest num_runs explored

\* BenchmarkConfig{}: the members that steer RunBenchmark
DefaultBenchmarkConfig ==
    [num_runs |-> 100, warm_up |-> TRUE, warm_up_runs |-> 10,
     batch_sizes |-> <<1, 4, 8, 16>>, timeout_ms |-> "nullopt",
     progress_callback |-> FALSE]

\* Impl(): initialized_(false), then Initialize() sets it unless
\* make_unique<ModelEngine> throws
BenchInit ==
    /\ initialized_ \in BOOLEAN
    /\ bench_config = DefaultBenchmarkConfig
    /\ bench_pc = "idle"
    /\ batch_index = 1
    /\ run = 0
    /\ results = <<>>

\* RunSingleBenchmark(model_path, batch_size): returns, or throws
\* std::runtime_error when LoadModel or RunInference returns false
RunSingleBenchmarkOutcomes == {"ok", "throw"}

\* RunBenchmark(model_path, config, error_msg): entry
RunBenchmark(config) ==
    /\ bench_pc \in {"idle", "returned", "threw"}
    /\ bench_config' = config
    /\ results' = <<>>
    /\ batch_index' = 1
    /\ run' = 0
    /\ bench_pc' = IF ~initialized_ THEN "returned"
                   ELSE IF config.warm_up /\ config.warm_up_runs > 0 THEN "warm_up"
                   ELSE "batch"
    /\ UNCHANGED initialized_

\* the warm-up loop: RunSingleBenchmark(model_path, 1) outside any try block
RunBenchmarkWarmUp ==
    /\ bench_pc = "warm_up"
    /\ \E o \in RunSingleBenchmarkOutcomes :
          bench_pc' = IF o = "throw" THEN "threw" ELSE "batch"
    /\ UNCHANGED <<initialized_, bench_config, batch_index, run, results>>

\* for (int batch_size : config.batch_sizes): next element, or return results
RunBenchmarkBatch ==
    /\ bench_pc = "batch"
    /\ IF batch_index > Len(bench_config.batch_sizes)
       THEN bench_pc' = "returned" /\ UNCHANGED run
       ELSE bench_pc' = "run" /\ run' = 0
    /\ UNCHANGED <<initialized_, bench_config, batch_index, results>>

\* one iteration of for (run = 0; run < config.num_runs; run++): measure,
\* push the row, call the progress callback, check the timeout; `break`
\* leaves the loop over the runs of this batch size.  `batch` and `run` of a
\* row say which iteration pushed it, `exceeded` whether its elapsed time was
\* above the timeout.
RunBenchmarkRun(measured, exceeded) ==
    /\ bench_pc = "run"
    /\ IF run < bench_config.num_runs
       THEN /\ results' = Append(results,
                    [batch_size |-> bench_config.batch_sizes[batch_index],
                     inference_time_ms |-> IF measured = "ok" THEN "measured"
                                           ELSE "indeterminate",
                     batch |-> batch_index, run |-> run, exceeded |-> exceeded])
            /\ IF bench_config.timeout_ms # "nullopt" /\ exceeded
               THEN /\ bench_pc' = "batch"
                    /\ batch_index' = batch_index + 1
                    /\ UNCHANGED run
               ELSE /\ run' = run + 1
                    /\ UNCHANGED <<bench_pc, batch_index>>
       ELSE /\ bench_pc' = "batch"
            /\ batch_index' = batch_index + 1
            /\ UNCHANGED <<run, results>>
    /\ UNCHANGED <<initialized_, bench_config>>

(***************************************************************************)
(* SpecErr: a client that registers listeners, reports errors of several   *)
(* severities, switches automatic recovery, clears and resets.             *)
(***************************************************************************)
ErrSeverities == {"WARNING", "CRITICAL"}
ErrContexts == [message : {"m"}, severity : ErrSeverities,
                category : {"HARDWARE"}, component : {"comp"},
                timestamp : {0}]

\* the handler is used on its own: no accelerator object, arm64 build
EHAlone == UNCHANGED <<env_vars, acc_vars, eng_vars, mon_vars, bench_vars, ctl_vars, clock_vars, eh_threads>>
EHAloneInit ==
    /\ EHInit
    /\ AccInit
    /\ EngInit
    /\ MonInit
    /\ BenchInit
    /\ ClockInit
    /\ CtlInit
    /\ build_aarch64 = TRUE
    /\ caller = "running"
    /\ apu_state = "available"

ErrRegisterCallback ==
    \E cb \in CallbackKinds \cup {"null"} :
        /\ Len(callbacks_) < MaxCallbacks
        /\ RegisterErrorCallback(cb)
        /\ EHAlone
ErrHandleError ==
    \E ctx \in ErrContexts : reports < MaxReports /\ HandleError(ctx) /\ EHAlone
ErrReportError ==
    \E m \in {"m", ""}, s \in ErrSeverities, comp \in {"", "comp"} :
        reports < MaxReports /\ ReportError(m, s, "HARDWARE", comp, 0) /\ EHAlone
ErrSetAutomaticRecovery == \E b \in BOOLEAN : SetAutomaticRecovery(b) /\ EHAlone
ErrClearErrorHistory == ClearErrorHistory /\ EHAlone
ErrResetSystem == ResetSystem /\ EHAlone

ErrNext ==
    \/ ErrRegisterCallback
    \/ ErrHandleError
    \/ ErrReportError
    \/ ErrSetAutomaticRecovery
    \/ ErrClearErrorHistory
    \/ ErrResetSystem

SpecErr == EHAloneInit /\ [][ErrNext]_vars

(***************************************************************************)
(* SpecRecovery: a client that registers strategies, sets the retry count  *)
(* and asks for recovery, directly and through HandleError.                *)
(***************************************************************************)
RecCategories == {"HARDWARE", "MODEL"}
RecContexts == [message : {"m"}, severity : {"ERROR"},
                category : RecCategories, component : {"comp"},
                timestamp : {0}]

RecRegisterStrategy ==
    \E s \in StrategyKinds \cup {"null"} :
        RegisterRecoveryStrategy("HARDWARE", s) /\ EHAlone
RecSetMaxRetries == \E r \in -1 .. MaxRetriesArg : SetMaxRetries(r) /\ EHAlone
RecAttemptRecovery == \E ctx \in RecContexts : AttemptRecovery(ctx) /\ EHAlone
RecHandleError ==
    \E ctx \in RecContexts : reports < MaxReports /\ HandleError(ctx) /\ EHAlone

RecNext ==
    \/ RecRegisterStrategy
    \/ RecSetMaxRetries
    \/ RecAttemptRecovery
    \/ RecHandleError
    \/ ErrSetAutomaticRecovery

SpecRecovery == EHAloneInit /\ [][RecNext]_vars

(***************************************************************************)
(* SpecBackoff: a client that sets small and large retry counts and asks   *)
(* for recovery with strategies that fail.                                 *)
(***************************************************************************)
BackoffRetries == {-1, 0, 1, 2, 3, MaxExactShift + 1, MaxExactShift + 3, 32}

BkfRegisterStrategy ==
    \E c \in RecCategories, s \in StrategyKinds :
        RegisterRecoveryStrategy(c, s) /\ EHAlone
BkfSetMaxRetries == \E r \in BackoffRetries : SetMaxRetries(r) /\ EHAlone

BkfNext ==
    \/ BkfRegisterStrategy
    \/ BkfSetMaxRetries
    \/ RecAttemptRecovery

SpecBackoff == EHAloneInit /\ [][BkfNext]_vars

(***************************************************************************)
(* SpecThreads: two client threads call AttemptRecovery, HandleError and   *)
(* ReportError on one handler at the same time, while strategies are       *)
(* registered and the settings change.                                     *)
(***************************************************************************)
ThrStrategies == {"ReturnsFalse", "TrueOnSecond"}
ThrRetries == {1, 2}

ThrCallAttemptRecovery ==
    \E t \in Threads, ctx \in RecContexts :
        ThreadCallAttemptRecovery(t, ctx) /\ UNCHANGED <<env_vars, acc_vars, eng_vars, mon_vars, bench_vars, ctl_vars, clock_vars>>
ThrCallHandleError ==
    \E t \in Threads, ctx \in RecContexts :
        /\ reports < MaxReports
        /\ ThreadCallHandleError(t, ctx)
        /\ UNCHANGED <<env_vars, acc_vars, eng_vars, mon_vars, bench_vars, ctl_vars, clock_vars>>
ThrCallReportError ==
    \E t \in Threads, msg \in {"", "m"}, c \in RecCategories :
        /\ reports < MaxReports
        /\ ThreadCallReportError(t, msg, "ERROR", c, "comp", 0)
        /\ UNCHANGED <<env_vars, acc_vars, eng_vars, mon_vars, bench_vars, ctl_vars, clock_vars>>
ThrStepOf(t) ==
        /\ \/ ThreadHandleErrorLock(t)
           \/ ThreadHandleErrorRecover(t)
           \/ ThreadHandleErrorHealth(t)
           \/ ThreadAttemptRecoveryLock(t)
           \/ ThreadAttemptRecoveryFind(t)
           \/ ThreadAttemptRecoveryWhile(t)
           \/ ThreadStrategyReturns(t)
           \/ ThreadBackoffSleepReturns(t)
        /\ UNCHANGED <<env_vars, acc_vars, eng_vars, mon_vars, bench_vars, ctl_vars, clock_vars>>
ThrStep == \E t \in Threads : ThrStepOf(t)
ThrRegisterStrategy ==
    \E c \in RecCategories, s \in ThrStrategies :
        RegisterRecoveryStrategy(c, s) /\ EHAlone
ThrSetMaxRetries == \E r \in ThrRetries : SetMaxRetries(r) /\ EHAlone

ThrNext ==
    \/ ThrCallAttemptRecovery
    \/ ThrCallHandleError
    \/ ThrCallReportError
    \/ ThrStep
    \/ ThrRegisterStrategy
    \/ ThrSetMaxRetries
    \/ ErrSetAutomaticRecovery

SpecThreads == EHAloneInit /\ [][ThrNext]_vars

\* the same, with a scheduler that lets every thread that can take a step
\* take one eventually
SpecThreadsFair == SpecThreads /\ \A t \in Threads : WF_vars(ThrStepOf(t))

(***************************************************************************)
(* SpecReentrant: listeners that call back into the handler are registered *)
(* and errors are reported.                                                *)
(***************************************************************************)
ReeRegisterCallback ==
    \E cb \in ReentrantKinds \cup {"returns"} :
        /\ Len(callbacks_) < MaxCallbacks
        /\ RegisterErrorCallback(cb)
        /\ EHAlone
ReeHandleError ==
    \E ctx \in ErrContexts : reports < MaxReports /\ HandleError(ctx) /\ EHAlone

ReeNext ==
    \/ ReeRegisterCallback
    \/ ReeHandleError
    \/ ErrSetAutomaticRecovery
    \/ ErrClearErrorHistory

SpecReentrant == EHAloneInit /\ [][ReeNext]_vars

(***************************************************************************)
(* SpecExport: a client that reports errors of several severities,         *)
(* categories and messages, clears the history and exports it.             *)
(***************************************************************************)
ExpContexts == [message : {"m", "n"}, severity : {"INFO", "ERROR", "CRITICAL"},
                category : {"HARDWARE", "NETWORK"}, component : {"comp"},
                timestamp : {0}]

ExpHandleError ==
    \E ctx \in ExpContexts :
        reports < MaxReports /\ HandleError(ctx) /\ EHAlone
ExpExportErrorLogs ==
    \E path \in {"", "errors.json"}, opens \in BOOLEAN :
        ExportErrorLogs(path, opens) /\ EHAlone

ExpNext ==
    \/ ExpHandleError
    \/ ExpExportErrorLogs
    \/ ErrSetAutomaticRecovery
    \/ ErrClearErrorHistory

SpecExport == EHAloneInit /\ [][ExpNext]_vars

(***************************************************************************)
(* SpecHistory: a client that reports more errors than the history holds.  *)
(* Every report carries its arrival number as its timestamp.               *)
(***************************************************************************)
HistContext(n) == [message |-> "m", severity |-> "ERROR",
                   category |-> "HARDWARE", component |-> "comp",
                   timestamp |-> n]
HistReportError ==
    /\ reports < HistReports
    /\ ReportError("m", "ERROR", "HARDWARE", "comp", reports + 1)
    /\ EHAlone

HistNext ==
    \/ HistReportError
    \/ ErrSetAutomaticRecovery

SpecHistory == EHAloneInit /\ [][HistNext]_vars

(***************************************************************************)
(* SpecAccel: a client that constructs an accelerator of either variant    *)
(* and drives it directly, on either build, while the driver's answer      *)
(* changes.                                                                *)
(***************************************************************************)
Inputs == {<<>>, <<7>>}
PowerLevelArgs == {MIN_DSP_POWER_LEVEL - 1, MIN_DSP_POWER_LEVEL, 3,
                   MAX_DSP_POWER_LEVEL, MAX_DSP_POWER_LEVEL + 1}

AccAlone == UNCHANGED <<eh_vars, eng_vars, mon_vars, bench_vars, ctl_vars, clock_vars>>
AccAloneInit ==
    /\ EHInit
    /\ AccInit
    /\ EngInit
    /\ MonInit
    /\ BenchInit
    /\ ClockInit
    /\ CtlInit
    /\ build_aarch64 \in BOOLEAN
    /\ caller = "running"
    /\ apu_state \in ApuStates

AccelConstruct == \E k \in AccKinds : AccConstruct(k) /\ AccAlone
AccelInitialize == AccInitialize /\ AccAlone
AccelIsAvailable == AccIsAvailable /\ AccAlone
AccelRunInference == \E i \in Inputs : AccRunInference(i, <<>>) /\ AccAlone
AccelSetDSPPowerLevel == \E l \in PowerLevelArgs : SetDSPPowerLevel(l) /\ AccAlone
AccelSetPowerProfile ==
    \E p \in PowerProfiles \cup {"invalid"} : QualcommSetPowerProfile(p) /\ AccAlone
AccelMTKSetPowerProfile ==
    \E p \in PowerProfiles \cup {"invalid"}, accepted \in BOOLEAN :
        MTKSetPowerProfile(p, accepted) /\ AccAlone
AccelReleaseResources == QualcommReleaseResources /\ AccAlone
AccelResetState == QualcommResetState /\ AccAlone
AccelDriverChange == \E a \in ApuStates : DriverChange(a) /\ AccAlone

AccelNext ==
    \/ AccelConstruct
    \/ AccelInitialize
    \/ AccelIsAvailable
    \/ AccelRunInference
    \/ AccelSetDSPPowerLevel
    \/ AccelSetPowerProfile
    \/ AccelMTKSetPowerProfile
    \/ AccelReleaseResources
    \/ AccelResetState
    \/ AccelDriverChange

SpecAccel == AccAloneInit /\ [][AccelNext]_vars

(***************************************************************************)
(* SpecEngine: a client that gives the engine an accelerator of either     *)
(* variant, loads models, switches hardware acceleration and runs single   *)
(* and batch inference, while the driver's answer changes.                 *)
(***************************************************************************)
MaxBatch == 2          \* largest batch and largest max_batch_size explored
EngFormats == {"CUSTOM", "TFLITE"}
EngConfigs == {DefaultModelConfig,
               [max_batch_size |-> MaxBatch, enable_optimization |-> FALSE]}
RECURSIVE SeqsUpTo(_, _)
SeqsUpTo(S, n) ==
    IF n = 0 THEN {<<>>}
    ELSE LET shorter == SeqsUpTo(S, n - 1)
         IN shorter \cup {Append(q, x) : q \in shorter, x \in S}
Batches == SeqsUpTo(Inputs, MaxBatch + 1)
OldOutput == <<9>>     \* what the caller's output vector holds before the call

EngAloneInit ==
    /\ EHInit
    /\ AccInit
    /\ EngInit
    /\ MonInit
    /\ BenchInit
    /\ ClockInit
    /\ CtlInit
    /\ build_aarch64 \in BOOLEAN
    /\ caller = "running"
    /\ apu_state \in ApuStates

EngInitialize == \E k \in AccKinds : EngineInitialize(k)
EngLoadModel ==
    \E e \in BOOLEAN, f \in EngFormats, c \in EngConfigs : LoadModel(e, f, c)
EngEnableHardwareAcceleration == \E b \in BOOLEAN : EnableHardwareAcceleration(b)
EngRunInference == \E i \in Inputs : EngineRunInference(i, OldOutput)
EngRunBatchInference ==
    \E b \in Batches : EngineRunBatchInference(b, <<OldOutput>>)
EngDriverChange ==
    \E a \in ApuStates : DriverChange(a) /\ UNCHANGED <<eh_vars, eng_vars, mon_vars, bench_vars, ctl_vars, clock_vars>>

EngNext ==
    \/ EngInitialize
    \/ EngLoadModel
    \/ EngEnableHardwareAcceleration
    \/ EngRunInference
    \/ EngRunBatchInference
    \/ EngineReleaseResources
    \/ EngDriverChange

SpecEngine == EngAloneInit /\ [][EngNext]_vars

(***************************************************************************)
(* SpecBatch: a client that loads models, switches hardware acceleration   *)
(* and runs batches asking for the metrics of the batch.                   *)
(***************************************************************************)
\* what the clock, GetCurrentMemoryUsage and GetCPUUsage give one RunInference
\* for each item of a batch: times 1, 2 or 2, 3 ms, 10 MB, 50 % CPU
BatReadings ==
    {[i \in 1 .. MaxBatch |-> [inference_time_ms |-> t + i - 1,
                                memory_usage_mb |-> 10, cpu_usage_percent |-> 50]]
       : t \in {1, 2}}
BatBatches == SeqsUpTo({<<7>>}, MaxBatch + 1)
BatRunBatchInference ==
    \E b \in BatBatches, rd \in BatReadings :
        EngineRunBatchInferenceMetrics(b, <<OldOutput>>, rd)

BatNext ==
    \/ EngLoadModel
    \/ EngEnableHardwareAcceleration
    \/ BatRunBatchInference

\* no accelerator is handed to the engine here: one build, one driver state
BatAloneInit == EngAloneInit /\ build_aarch64 /\ apu_state = "available"

SpecBatch == BatAloneInit /\ [][BatNext]_vars

(***************************************************************************)
(* SpecConfig: a client that sets thread counts, valid and not, on the     *)
(* engine and on an accelerator of either variant, and releases them.      *)
(***************************************************************************)
ThreadCountArgs == {-1, 0, 1, 2, 4}

CfgEngineSetNumThreads == \E n \in ThreadCountArgs : EngineSetNumThreads(n)
CfgQualcommSetNumThreads ==
    \E n \in ThreadCountArgs : QualcommSetNumThreads(n) /\ AccAlone
CfgMTKSetThreadCount ==
    \E n \in ThreadCountArgs : MTKSetThreadCount(n) /\ AccAlone

CfgNext ==
    \/ AccelConstruct
    \/ AccelInitialize
    \/ AccelReleaseResources
    \/ CfgQualcommSetNumThreads
    \/ CfgMTKSetThreadCount
    \/ CfgEngineSetNumThreads
    \/ EngineReleaseResources

SpecConfig == EngAloneInit /\ [][CfgNext]_vars

(***************************************************************************)
(* SpecMon: one controlling thread starts and stops the monitor, registers *)
(* an alert callback and changes a threshold while the sampling thread     *)
(* runs.                                                                   *)
(***************************************************************************)
MaxAlertCallbacks == 1
MonConfigs == {DefaultMonitoringConfig,
               [DefaultMonitoringConfig EXCEPT !.monitor_cpu = FALSE]}
CpuReadings == {50, DefaultCpuThreshold, 95}
MemoryReadings == {50}
TemperatureReadings == {50, 95}
ThresholdArgs == {40, DefaultCpuThreshold}

MonAlone ==
    UNCHANGED <<eh_vars, env_vars, acc_vars, eng_vars, bench_vars, ctl_vars, clock_vars, mon_mutex_, query>>
MonAloneInit ==
    /\ EHInit
    /\ AccInit
    /\ EngInit
    /\ MonInit
    /\ BenchInit
    /\ ClockInit
    /\ CtlInit
    /\ build_aarch64 = TRUE
    /\ caller = "running"
    /\ apu_state = "available"

MonStartMonitoring == \E c \in MonConfigs : StartMonitoring(c) /\ MonAlone
MonStopMonitoring == StopMonitoring /\ MonAlone
MonStopMonitoringJoin == StopMonitoringJoin /\ MonAlone
MonRegisterAlertCallback ==
    alert_callbacks_ < MaxAlertCallbacks /\ RegisterAlertCallback /\ MonAlone
MonSetCPUThreshold == \E t \in ThresholdArgs : SetCPUThreshold(t) /\ MonAlone
MonLoopCheck == MonitoringLoopCheck /\ MonAlone
MonUpdateMetrics ==
    \E c \in FieldValues(mon_config_.monitor_cpu, CpuReadings),
       m \in FieldValues(mon_config_.monitor_memory, MemoryReadings),
       t \in FieldValues(mon_config_.monitor_temperature, TemperatureReadings) :
        UpdateMetrics(c, m, t) /\ MonAlone
MonCheckThresholds == CheckThresholds /\ MonAlone
MonLoopSleep == MonitoringLoopSleep /\ MonAlone

MonNext ==
    \/ MonStartMonitoring
    \/ MonStopMonitoring
    \/ MonStopMonitoringJoin
    \/ MonRegisterAlertCallback
    \/ MonSetCPUThreshold
    \/ MonLoopCheck
    \/ MonUpdateMetrics
    \/ MonCheckThresholds
    \/ MonLoopSleep

SpecMon == MonAloneInit /\ [][MonNext]_vars

(***************************************************************************)
(* SpecTimed: the scenario of a monitor started once with a sampling       *)
(* interval of ScenarioInterval and stopped about StopAfter later, against *)
(* the clock.                                                              *)
(***************************************************************************)
TimConfig == [DefaultMonitoringConfig EXCEPT !.sampling_interval = ScenarioInterval]
TimAlone ==
    UNCHANGED <<eh_vars, env_vars, acc_vars, eng_vars, bench_vars, ctl_vars, mon_mutex_, query>>

TimStartMonitoring ==
    /\ clock_now = 0
    /\ cleared_at = -1
    /\ ~monitoring_
    /\ StartMonitoring(TimConfig)
    /\ deadline' = clock_now + MaxLatency
    /\ UNCHANGED <<clock_now, sleep_until, cleared_at>>
    /\ TimAlone
TimStopMonitoring ==
    /\ monitoring_
    /\ clock_now >= StopAfter - StopSlack
    /\ StopMonitoring
    /\ cleared_at' = clock_now
    /\ UNCHANGED <<clock_now, sleep_until, deadline>>
    /\ TimAlone
TimStopMonitoringJoin == StopMonitoringJoin /\ UNCHANGED clock_vars /\ TimAlone
TimLoopCheck ==
    /\ LoopCheck(TimedLoopReads, TimMaxSamples)
    /\ deadline' = clock_now + MaxLatency
    /\ UNCHANGED <<clock_now, sleep_until, cleared_at>>
    /\ TimAlone
TimUpdateMetrics ==
    /\ UpdateMetrics(50, 50, 50)
    /\ deadline' = clock_now + MaxLatency
    /\ UNCHANGED <<clock_now, sleep_until, cleared_at>>
    /\ TimAlone
\* CheckThresholds(), then sleep_for(config_.sampling_interval) is entered
TimCheckThresholds ==
    /\ CheckThresholds
    /\ sleep_until' = SleepFor(clock_now, mon_config_.sampling_interval)
    /\ deadline' = sleep_until' + MaxLatency
    /\ UNCHANGED <<clock_now, cleared_at>>
    /\ TimAlone
TimLoopSleep ==
    /\ clock_now >= sleep_until
    /\ MonitoringLoopSleep
    /\ deadline' = clock_now + MaxLatency
    /\ UNCHANGED <<clock_now, sleep_until, cleared_at>>
    /\ TimAlone
\* time passes
TimTick ==
    \E d \in {ClockStep, 5 * ClockStep} :
        /\ monitoring_ \/ cleared_at >= 0
        /\ clock_now + d <= Horizon
        /\ SamplingThreadLive => clock_now + d <= deadline
        /\ monitoring_ => clock_now + d <= StopAfter + StopSlack
        /\ clock_now' = clock_now + d
        /\ UNCHANGED <<eh_vars, env_vars, acc_vars, eng_vars, bench_vars, ctl_vars, mon_vars,
                       sleep_until, deadline, cleared_at>>

TimNext ==
    \/ TimStartMonitoring
    \/ TimStopMonitoring
    \/ TimStopMonitoringJoin
    \/ TimLoopCheck
    \/ TimUpdateMetrics
    \/ TimCheckThresholds
    \/ TimLoopSleep
    \/ TimTick

SpecTimed == MonAloneInit /\ [][TimNext]_vars

(***************************************************************************)
(* SpecClients: two client threads call StartMonitoring and StopMonitoring *)
(* on one monitor at the same time.                                        *)
(***************************************************************************)
CltAlone ==
    UNCHANGED <<eh_vars, env_vars, acc_vars, eng_vars, bench_vars, clock_vars,
                current_metrics_, metrics_history_, alert_callbacks_,
                cpu_threshold_, memory_threshold_, temperature_threshold_,
                ctl_pc, alerts, stopped, mon_mutex_, query>>

CltStartCheck ==
    \E c \in Clients, config \in MonConfigs : StartMonitoringCheck(c, config) /\ CltAlone
CltStartAssign == \E c \in Clients : StartMonitoringAssign(c) /\ CltAlone
CltStartSpawn == \E c \in Clients : StartMonitoringSpawn(c) /\ CltAlone
CltStopCheck == \E c \in Clients : StopMonitoringCheck(c) /\ CltAlone
CltStopClear == \E c \in Clients : StopMonitoringClear(c) /\ CltAlone
CltStopJoined == \E c \in Clients : StopMonitoringJoined(c) /\ CltAlone
CltLoopIterates == OwnedLoopIterates /\ CltAlone

CltNext ==
    \/ CltStartCheck
    \/ CltStartAssign
    \/ CltStartSpawn
    \/ CltStopCheck
    \/ CltStopClear
    \/ CltStopJoined
    \/ CltLoopIterates

SpecClients == MonAloneInit /\ [][CltNext]_vars

(***************************************************************************)
(* SpecQueries: a second client thread queries the monitor while the       *)
(* controlling thread starts and stops it and the sampling thread runs.    *)
(***************************************************************************)
QryCall ==
    \E op \in SimpleQueries \cup {"GeneratePerformanceReport"} :
        QueryCall(op) /\ UNCHANGED <<eh_vars, env_vars, acc_vars, eng_vars, bench_vars, ctl_vars, clock_vars>>
QryLock == QueryLock /\ UNCHANGED <<eh_vars, env_vars, acc_vars, eng_vars, bench_vars, ctl_vars, clock_vars>>
QryReadAndUnlock ==
    QueryReadAndUnlock /\ UNCHANGED <<eh_vars, env_vars, acc_vars, eng_vars, bench_vars, ctl_vars, clock_vars>>
QryReadSize == QueryReadSize /\ UNCHANGED <<eh_vars, env_vars, acc_vars, eng_vars, bench_vars, ctl_vars, clock_vars>>

QryNext ==
    \/ MonStartMonitoring
    \/ MonStopMonitoring
    \/ MonStopMonitoringJoin
    \/ MonLoopCheck
    \/ MonUpdateMetrics
    \/ MonCheckThresholds
    \/ MonLoopSleep
    \/ QryCall
    \/ QryLock
    \/ QryReadAndUnlock
    \/ QryReadSize

SpecQueries == MonAloneInit /\ [][QryNext]_vars

(***************************************************************************)
(* SpecBench: a client that runs benchmark sweeps with and without a       *)
(* per-run timeout, over zero to two batch sizes.                          *)
(***************************************************************************)
BenchConfigs ==
    {[DefaultBenchmarkConfig EXCEPT !.num_runs = n, !.warm_up = w,
                                    !.batch_sizes = b, !.timeout_ms = t]
       : n \in 0 .. MaxBenchRuns, w \in BOOLEAN,
         b \in {<<>>, <<4>>, <<1, 4>>}, t \in {"nullopt", "set"}}

BenchAlone ==
    UNCHANGED <<eh_vars, env_vars, acc_vars, eng_vars, mon_vars, clock_vars, ctl_vars>>

BenchRunBenchmark == \E c \in BenchConfigs : RunBenchmark(c) /\ BenchAlone
BenchWarmUp == RunBenchmarkWarmUp /\ BenchAlone
BenchBatch == RunBenchmarkBatch /\ BenchAlone
BenchRun ==
    \E m \in RunSingleBenchmarkOutcomes, e \in BOOLEAN :
        RunBenchmarkRun(m, e) /\ BenchAlone

BenchNext ==
    \/ BenchRunBenchmark
    \/ BenchWarmUp
    \/ BenchBatch
    \/ BenchRun

SpecBench == MonAloneInit /\ [][BenchNext]_vars

(***************************************************************************)
(* Properties of core::ErrorHandler                                        *)
(***************************************************************************)

\* C2 (SpecHistory): the history never holds more than MAX_HISTORY entries; it
\* always holds exactly the most recent min(reports, MAX_HISTORY) recorded
\* errors in arrival order, so a report at full history drops the oldest
\* entry and puts the new one last.
HistoryBoundedFifo ==
    /\ Len(GetErrorHistory) <= MAX_HISTORY
    /\ Len(GetErrorHistory) = (IF reports < MAX_HISTORY THEN reports ELSE MAX_HISTORY)
    /\ \A i \in 1 .. Len(GetErrorHistory) :
          GetErrorHistory[i].timestamp = reports - Len(GetErrorHistory) + i
\* after the 1001st report the first report is gone and the 1001st is last
HistoryEvictedOldest ==
    /\ reports = MAX_HISTORY + 1
    /\ Len(GetErrorHistory) = MAX_HISTORY
    /\ GetErrorHistory[1].timestamp = 2
    /\ GetErrorHistory[MAX_HISTORY].timestamp = MAX_HISTORY + 1

\* C3 (SpecRecovery): when the strategy registered for the error's category
\* fails on every attempt (returns false or throws), one AttemptRecovery call
\* invokes it exactly max_retries_ times and returns false.
AlwaysFailingExhaustsRetries ==
    (/\ eh_obs.op = "AttemptRecovery"
     /\ recovery_strategies_[eh_obs.context.category] \in AlwaysFails)
    => (eh_obs.invocations = max_retries_ /\ eh_obs.result = FALSE)
AttemptRecoveryExhausted ==
    /\ eh_obs.op = "AttemptRecovery"
    /\ recovery_strategies_[eh_obs.context.category] = "FalseThenThrow"
    /\ max_retries_ = MaxRetriesArg
    /\ eh_obs.invocations = MaxRetriesArg
    /\ eh_obs.result = FALSE

\* C9 (SpecErr): HandleError invokes every registered listener exactly once,
\* in registration order, whether or not an earlier listener threw; no
\* listener exception leaves HandleError; the error is the newest history
\* entry.
ListenersNotifiedInOrder ==
    eh_obs.op = "HandleError" =>
        /\ eh_obs.notified = [i \in 1 .. Len(callbacks_) |-> i]
        /\ eh_obs.escaped # "listener"
        /\ Len(GetErrorHistory) > 0
        /\ GetErrorHistory[Len(GetErrorHistory)] = eh_obs.context
ThrowingListenerFollowed ==
    /\ eh_obs.op = "HandleError"
    /\ Len(callbacks_) = 2
    /\ callbacks_[1] = "throws"
    /\ eh_obs.notified = <<1, 2>>

\* C10 (SpecErr): once a Critical error has been recorded IsSystemHealthy is
\* false until ResetSystem, and ResetSystem leaves the history empty and the
\* system healthy.
CriticalLatchesUnhealthy ==
    /\ critical_seen => ~IsSystemHealthy
    /\ eh_obs.op = "ResetSystem" => (IsSystemHealthy /\ GetErrorHistory = <<>>)

\* C11 (SpecRecovery): an AttemptRecovery call for a context whose category
\* has no registered strategy returns false, having invoked no strategy (not
\* even one registered for another category) and slept no delay.
NoStrategyNoRecovery ==
    (/\ eh_obs.op = "AttemptRecovery"
     /\ recovery_strategies_[eh_obs.context.category] = "none")
    => (/\ eh_obs.result = FALSE
        /\ eh_obs.invocations = 0
        /\ eh_obs.delays = <<>>)
\* recovery was asked for MODEL while only HARDWARE has a strategy, one that
\* would have succeeded
OtherCategoryStrategyIgnored ==
    /\ eh_obs.op = "AttemptRecovery"
    /\ eh_obs.context.category = "MODEL"
    /\ recovery_strategies_["MODEL"] = "none"
    /\ recovery_strategies_["HARDWARE"] = "ReturnsTrue"
    /\ max_retries_ > 0
    /\ eh_obs.result = FALSE
    /\ eh_obs.invocations = 0

\* C14 (SpecThreads): with several threads inside ReportError, HandleError
\* and AttemptRecovery of one handler, a thread that is executing a recovery
\* strategy owns the handler's mutex, so no two threads execute the strategy
\* of the same category (or any two strategies) at the same time.
StrategyInvocationsSerialized ==
    /\ \A t \in Threads : eh_threads[t].pc = "strategy" => eh_mutex_ = t
    /\ \A c \in Categories, t1 \in Threads, t2 \in Threads :
          (InStrategy(t1, c) /\ InStrategy(t2, c)) => t1 = t2
\* one thread executes the HARDWARE strategy while the other, which wants
\* recovery for HARDWARE too, waits for the mutex
SecondRecoveryWaits ==
    /\ InStrategy("t1", "HARDWARE")
    /\ eh_threads["t2"].pc = "AttemptRecovery:lock"
    /\ eh_threads["t2"].context.category = "HARDWARE"

\* C20 (SpecBackoff): in every AttemptRecovery call, for every max_retries_,
\* each delay slept between attempts is positive and twice the one before
\* it (so the delays are strictly increasing and never wrap, reach zero or
\* go negative), and no delay follows the last attempt.
BackoffStrictlyIncreasing ==
    eh_obs.op = "AttemptRecovery" =>
        /\ \A i \in 1 .. Len(eh_obs.delays) : eh_obs.delays[i] > 0
        /\ \A i \in 1 .. Len(eh_obs.delays) - 1 :
              /\ eh_obs.delays[i] < eh_obs.delays[i + 1]
              /\ eh_obs.delays[i + 1] % 2 = 0
              /\ eh_obs.delays[i + 1] \div 2 = eh_obs.delays[i]
        /\ eh_obs.invocations = 0 => eh_obs.delays = <<>>
        /\ eh_obs.invocations > 0 => Len(eh_obs.delays) < eh_obs.invocations

\* the first attempt (0-based) below max at which a strategy of this kind
\* returns true, or max when there is none
FirstSuccess(kind, max) ==
    IF \E a \in 0 .. max - 1 : StrategyOutcome(kind, a) = "true"
    THEN CHOOSE a \in 0 .. max - 1 :
            /\ StrategyOutcome(kind, a) = "true"
            /\ \A b \in 0 .. a - 1 : StrategyOutcome(kind, b) # "true"
    ELSE max

\* C22 (SpecRecovery): AttemptRecovery invokes the strategy until the first
\* invocation that returns true and then returns true with no further
\* invocation; an invocation that throws counts as one failed attempt like
\* one that returns false, the loop goes on to the next attempt, and no
\* exception of the strategy leaves AttemptRecovery.
FirstSuccessEndsRecovery ==
    (/\ eh_obs.op = "AttemptRecovery"
     /\ recovery_strategies_[eh_obs.context.category] # "none")
    => LET first == FirstSuccess(recovery_strategies_[eh_obs.context.category],
                                 max_retries_)
       IN /\ ~eh_obs.escaped
          /\ eh_obs.result = (first < max_retries_)
          /\ eh_obs.invocations = (IF first < max_retries_ THEN first + 1
                                   ELSE max_retries_)
\* the strategy threw on the first attempt and returned true on the second,
\* with a third attempt still allowed
SucceededAfterThrow ==
    /\ eh_obs.op = "AttemptRecovery"
    /\ recovery_strategies_[eh_obs.context.category] = "ThrowThenTrue"
    /\ max_retries_ = MaxRetriesArg
    /\ eh_obs.result = TRUE
    /\ eh_obs.invocations = 2
    /\ Len(eh_obs.delays) = 1

\* the (message, category, severity) tuples of a sequence of records
Tuples(records) ==
    [i \in 1 .. Len(records) |->
        <<records[i].message, records[i].category, records[i].severity>>]

\* C29 (SpecThreadsFair): a thread that is inside HandleError with automatic
\* recovery enabled, has notified the listeners and calls AttemptRecovery
\* with the handler's mutex still held, eventually leaves the call.
HandleErrorEventuallyReturns ==
    \A t \in Threads :
        (eh_threads[t].pc = "AttemptRecovery:lock" /\ eh_mutex_ = t)
            ~> (eh_threads[t].pc = "idle")

\* C30 (SpecReentrant): a HandleError call made with automatic recovery
\* disabled, on a handler with a registered listener that calls back into
\* the handler, returns: every listener has been notified once, in order,
\* the mutex is free again and the listener list is as it was.
ReentrantListenerReturns ==
    [][(/\ eh_obs'.op = "HandleError"
        /\ (error_history_' # error_history_ \/ reports' # reports)
        /\ ~automatic_recovery_
        /\ FirstReentrant(callbacks_) > 0)
       => /\ eh_obs'.returned
          /\ eh_mutex_' = "free"
          /\ eh_obs'.notified = [i \in 1 .. Len(callbacks_) |-> i]
          /\ callbacks_' = callbacks_]_vars

RecoveryOnlyForErrorOrCritical ==
    eh_obs.op = "HandleError" =>
        /\ eh_obs.recovery_called =>
              (automatic_recovery_ /\ eh_obs.context.severity \in {"ERROR", "CRITICAL"})
        /\ (eh_obs.context.severity \in {"INFO", "WARNING"}
               /\ eh_obs.escaped # "listener") => eh_obs.returned

(***************************************************************************)
(* Properties of the accelerator variants                                  *)
(***************************************************************************)

\* C8 (SpecAccel): IsAvailable never returns true on an accelerator whose
\* Initialize has not yet returned SUCCESS, nor on one whose
\* ReleaseResources has been called.
UnavailableUnlessReady ==
    (/\ acc_obs.op = "IsAvailable"
     /\ (~acc_initialized \/ acc_released))
    => acc_obs.ret # "true"

\* C13 (SpecAccel): after a SetPowerProfile call on the Qualcomm variant that
\* returned SUCCESS, dsp_power_level_ is MIN_DSP_POWER_LEVEL (0) for
\* LOW_POWER, MAX_DSP_POWER_LEVEL (5) for HIGH_PERFORMANCE and 2, the integer
\* midpoint rounded down, for BALANCED, and GetCurrentPowerProfile returns
\* the profile that was set.
ProfileSetsPowerLevel ==
    (acc_kind = "Qualcomm" /\ acc_obs.op = "SetPowerProfile"
       /\ acc_obs.ret = "SUCCESS")
    => (/\ acc_obs.profile = "LOW_POWER" => dsp_power_level_ = 0
        /\ acc_obs.profile = "BALANCED" => dsp_power_level_ = 2
        /\ acc_obs.profile = "HIGH_PERFORMANCE" => dsp_power_level_ = 5
        /\ acc_obs.profile \in PowerProfiles
        /\ GetCurrentPowerProfile = acc_obs.profile)
\* BALANCED was set on an accelerator running at the maximum level
BalancedSetFromMaximum ==
    /\ acc_kind = "Qualcomm"
    /\ acc_obs.op = "SetPowerProfile"
    /\ acc_obs.ret = "SUCCESS"
    /\ acc_obs.profile = "BALANCED"
    /\ acc_obs.level_before = MAX_DSP_POWER_LEVEL
    /\ dsp_power_level_ = 2
    /\ GetCurrentPowerProfile = "BALANCED"

\* C16 (SpecAccel): every RunInference or SetPowerProfile call made on an
\* accelerator after ReleaseResources was called on it returns the
\* not-initialized error, and such a RunInference executes no inference: it
\* leaves the output vector and the metrics alone.
ReleasedIsTerminal ==
    (acc_released /\ acc_obs.op \in {"RunInference", "SetPowerProfile"})
    => (/\ acc_obs.ret \in NotInitializedCodes
        /\ acc_obs.op = "RunInference" =>
              (acc_obs.output = <<>> /\ ~acc_obs.wrote))

\* C17 (SpecAccel): a RunInference call on an accelerator whose Initialize
\* has never returned SUCCESS returns the not-initialized error code,
\* executes no inference and leaves the output vector as it was.
UninitializedRunRejected ==
    (~acc_initialized /\ acc_obs.op = "RunInference")
    => (/\ acc_obs.ret \in NotInitializedCodes
        /\ acc_obs.output = <<>>
        /\ ~acc_obs.wrote)

\* C33 (SpecAccel): a SetPowerProfile call on either variant that does not
\* end with SUCCESS leaves the profile GetCurrentPowerProfile returns as it
\* was before the call.
FailedSetPowerProfileKeepsProfile ==
    [][(acc_obs'.op = "SetPowerProfile" /\ acc_obs'.ret # "SUCCESS")
        => current_power_profile_' = current_power_profile_]_vars

\* C35 (SpecAccel): on the Qualcomm variant the profile returned by
\* GetCurrentPowerProfile and the DSP power level always agree with the
\* profile-to-level mapping (LOW_POWER 0, BALANCED 2, HIGH_PERFORMANCE 5).
ProfileAndLevelAgree ==
    acc_kind = "Qualcomm" => dsp_power_level_ = ProfilePowerLevel(GetCurrentPowerProfile)

\* C39 (SpecAccel): the Qualcomm variant's DSP power level is always within
\* MIN_DSP_POWER_LEVEL .. MAX_DSP_POWER_LEVEL, and a SetDSPPowerLevel call
\* with a level outside that range returns false and leaves the level as it
\* was.
PowerLevelWithinRange ==
    /\ [](dsp_power_level_ \in MIN_DSP_POWER_LEVEL .. MAX_DSP_POWER_LEVEL)
    /\ [][(/\ acc_obs'.op = "SetDSPPowerLevel"
            /\ acc_obs'.level \notin MIN_DSP_POWER_LEVEL .. MAX_DSP_POWER_LEVEL)
           => (acc_obs'.ret = FALSE /\ dsp_power_level_' = dsp_power_level_)]_vars
\* a level above the maximum was refused while the level was 3
OutOfRangeLevelRefused ==
    /\ acc_kind = "Qualcomm"
    /\ acc_obs.op = "SetDSPPowerLevel"
    /\ acc_obs.level > MAX_DSP_POWER_LEVEL
    /\ acc_obs.ret = FALSE
    /\ dsp_power_level_ = 3

\* C24 (SpecAccel): when the last call on a Ready accelerator was a
\* RunInference or SetPowerProfile that returned a failure code, a RunInference
\* called next on the same object does not succeed (the variant is in the
\* Error state until ResetState).
FailureCodes == {"HARDWARE_ERROR", "INVALID_INPUT", "UNSUPPORTED_OPERATION",
                 "RESOURCE_EXHAUSTED", "INITIALIZATION_FAILED"}
FailedCallLatchesError ==
    [][(/\ acc_initialized /\ ~acc_released
        /\ acc_obs.op \in {"RunInference", "SetPowerProfile"}
        /\ acc_obs.ret \in FailureCodes
        /\ acc_kind' = acc_kind
        /\ acc_initialized' /\ ~acc_released'
        /\ acc_obs'.op = "RunInference")
       => acc_obs'.ret # "SUCCESS"]_vars

\* C25 (SpecAccel): an IsAvailable call leaves the accelerator as it was: its
\* kind, handle, power level, power profile and thread count, and the error
\* history of its error handler are the same after the call as before it,
\* also when the hardware query fails.
IsAvailableChangesNothing ==
    [][acc_obs'.op = "IsAvailable" =>
         UNCHANGED <<acc_kind, neuropilot_handle_, dsp_power_level_,
                     current_power_profile_, acc_num_threads_, error_handler_>>]_vars

(***************************************************************************)
(* Properties of inference::ModelEngine                                    *)
(***************************************************************************)
EngineRan == eng_obs.op \in {"RunInference", "RunBatchInference"}
Returned == eng_obs.result.ret \in {"true", "false"}

\* C32 (SpecEngine): once a model has been loaded, a LoadModel call that
\* returns false leaves format_ and config_ as they were, and config_ changes
\* only in a LoadModel call that returns true or in ReleaseResources.
FailedLoadKeepsConfiguration ==
    [][/\ (loaded_ # {} /\ eng_obs'.op = "LoadModel" /\ eng_obs'.ret = "false")
            => (format_' = format_ /\ config_' = config_)
       /\ (loaded_ # {} /\ config_' # config_)
            => \/ (eng_obs'.op = "LoadModel" /\ eng_obs'.ret = "true")
               \/ eng_obs'.op = "ReleaseResources"]_vars

EmptyInputRejectedUpFront ==
    (eng_obs.op = "RunInference" /\ eng_obs.input = <<>> /\ Returned)
    => (/\ eng_obs.result.ret = "false"
        /\ eng_obs.result.acc_calls = 0
        /\ eng_obs.result.cpu_calls = 0)

\* C5 (SpecEngine): a RunBatchInference call with more inputs than
\* config_.max_batch_size returns false, makes no accelerator and no fallback
\* inference call and leaves the outputs container as it was.
OversizedBatchRejected ==
    (eng_obs.op = "RunBatchInference"
     /\ Len(eng_obs.inputs) > eng_obs.max_batch_size)
    => (/\ eng_obs.result.ret = "false"
        /\ eng_obs.result.acc_calls = 0
        /\ eng_obs.result.cpu_calls = 0
        /\ eng_obs.result.outs = eng_obs.before)
OversizedBatchSeen ==
    /\ eng_obs.op = "RunBatchInference"
    /\ eng_obs.max_batch_size = MaxBatch
    /\ Len(eng_obs.inputs) = MaxBatch + 1
    /\ accelerator_ = "held"
    /\ eng_obs.is_available = {"true"}
    /\ eng_obs.result.ret = "false"
    /\ eng_obs.result.outs = <<OldOutput>>

\* C6 (SpecEngine): with hardware acceleration enabled, a held accelerator
\* whose IsAvailable answers false, a non-empty input and a loaded model whose
\* backend runs without error, RunInference does not call the accelerator,
\* returns true and reports a GPU utilization of exactly zero.
FallbackReportsZeroUtilization ==
    (/\ eng_obs.op = "RunInference"
     /\ eng_obs.hw_enabled
     /\ eng_obs.is_available = {"false"}
     /\ eng_obs.input # <<>>
     /\ format_ \in loaded_
     /\ eng_obs.result.backend = "ok")
    => (/\ eng_obs.result.acc_calls = 0
        /\ eng_obs.result.ret = "true"
        /\ eng_obs.result.gpu = <<0>>)

\* C18 (SpecConfig): a thread-count setter called with a count <= 0 signals
\* failure to its caller (returns false or throws) and leaves the configured
\* thread count as it was: Engine.SetNumThreads, QualcommAccelerator's
\* SetNumThreads and MTKAccelerator's SetThreadCount.
NonPositiveThreadCountRejected ==
    /\ (eng_obs.op = "SetNumThreads" /\ eng_obs.arg <= 0)
         => (eng_obs.ret \in {"false", "throw"} /\ num_threads_ = eng_obs.before)
    /\ (acc_obs.op \in {"SetNumThreads", "SetThreadCount"} /\ acc_obs.arg <= 0)
         => (acc_obs.ret \in {"false", "throw"} /\ acc_num_threads_ = acc_obs.before)

\* C19 (SpecEngine): a RunBatchInference call for a batch within
\* max_batch_size that returns has called RunInference for every item, also
\* after an earlier item failed; it returns false exactly when some item's
\* RunInference returned false; outputs has one slot per input; and the slot
\* of every item that succeeded holds what the backend produced for it (the
\* input echoed by the Qualcomm and custom paths, the driver's or the
\* runtime's output vector otherwise).
BatchAttemptsEveryItem ==
    (/\ eng_obs.op = "RunBatchInference"
     /\ Len(eng_obs.inputs) <= eng_obs.max_batch_size
     /\ Returned)
    => (/\ Len(eng_obs.result.items) = Len(eng_obs.inputs)
        /\ Len(eng_obs.result.outs) = Len(eng_obs.inputs)
        /\ (eng_obs.result.ret = "false")
             <=> (\E i \in 1 .. Len(eng_obs.inputs) : eng_obs.result.items[i] = "false")
        /\ \A i \in 1 .. Len(eng_obs.inputs) :
              eng_obs.result.items[i] = "true" =>
                 eng_obs.result.outs[i] \in {eng_obs.inputs[i], DriverOutput,
                                             RuntimeOutput})
\* the first item of a batch of two failed, the second was still run and its
\* result is in the second slot
SecondItemRunAfterFailure ==
    /\ eng_obs.op = "RunBatchInference"
    /\ eng_obs.max_batch_size = 2
    /\ eng_obs.inputs = <<<<>>, <<7>>>>
    /\ eng_obs.result.items = <<"false", "true">>
    /\ eng_obs.result.ret = "false"
    /\ eng_obs.result.outs[2] = <<7>>

(***************************************************************************)
(* Properties of monitoring::PerformanceMonitor                            *)
(***************************************************************************)

AtMostOneSamplingThread == loops <= 1 /\ process = "running"

\* the alerts a step has added to the log
NewAlerts == SubSeq(alerts', Len(alerts) + 1, Len(alerts'))

\* C34 (SpecMon): a sample taken with monitor_cpu (monitor_temperature)
\* disabled never fires the CPU (temperature) alert.
DisabledMetricNeverAlerts ==
    [][\A i \in 1 .. Len(NewAlerts) :
          /\ ~mon_config_.monitor_cpu
                => NewAlerts[i][2] # "CPU usage above threshold"
          /\ ~mon_config_.monitor_temperature
                => NewAlerts[i][2] # "Temperature above threshold"]_vars

\* C7 (SpecMon): while StopMonitoring has returned and StartMonitoring has
\* not been called since, no sampling thread exists, and no step changes the
\* metrics history or the current-metrics snapshot or calls an alert callback.
NoSampleAfterStop ==
    /\ [](stopped => monitor_thread_ = "none")
    /\ [][(stopped /\ stopped') =>
            UNCHANGED <<metrics_history_, current_metrics_, alerts>>]_vars
\* the monitor was stopped after it had sampled and alerted
StoppedAfterSampling ==
    /\ stopped
    /\ ~monitoring_
    /\ Len(metrics_history_) = MaxSamples
    /\ alerts # <<>>

\* C12 (SpecMon): the step that checks a sample calls every registered alert
\* callback exactly once with the CPU message, in registration order, when
\* the sample's CPU reading is strictly greater than cpu_threshold_, and calls
\* none with that message when the reading is equal to or below it; the
\* sample checked is the one just appended to the history, each sample is
\* checked once, and no other step calls an alert callback.
IsCpuAlert(a) == a[2] = "CPU usage above threshold"
CpuAlertOncePerSample ==
    [][/\ metrics_history_' # metrics_history_ => monitor_thread_' = "thresholds"
       /\ monitor_thread_ = "thresholds" => monitor_thread_' \in {"thresholds", "sleep"}
       /\ IF monitor_thread_ = "thresholds" /\ monitor_thread_' = "sleep"
          THEN /\ current_metrics_[1] = metrics_history_[Len(metrics_history_)]
               /\ SelectSeq(SubSeq(alerts', Len(alerts) + 1, Len(alerts')), IsCpuAlert)
                    = (IF current_metrics_[1].cpu_usage > cpu_threshold_
                       THEN [i \in 1 .. alert_callbacks_ |->
                               <<i, "CPU usage above threshold">>]
                       ELSE <<>>)
               /\ SubSeq(alerts', 1, Len(alerts)) = alerts
          ELSE alerts' = alerts]_vars
\* two samples were checked against the default threshold with a callback
\* registered: the first, above it, alerted once; the second, equal to it,
\* did not
CpuAlertAboveNotAtThreshold ==
    /\ monitor_thread_ = "sleep"
    /\ alert_callbacks_ = MaxAlertCallbacks
    /\ cpu_threshold_ = DefaultCpuThreshold
    /\ Len(metrics_history_) = 2
    /\ metrics_history_[1].cpu_usage > DefaultCpuThreshold
    /\ metrics_history_[2].cpu_usage = DefaultCpuThreshold
    /\ SelectSeq(alerts, IsCpuAlert)
         = [i \in 1 .. MaxAlertCallbacks |-> <<i, "CPU usage above threshold">>]

\* C15 (SpecQueries): whenever the querying thread is at a statement that
\* reads metrics_history_ or current_metrics_ it owns the monitor's mutex,
\* and the sampling thread writes them only when no other thread owns it.
SharedMetricsAccessedUnderMutex ==
    /\ [](query.pc \in {"read", "size"} => mon_mutex_ = "query")
    /\ [][(metrics_history_' # metrics_history_ \/ current_metrics_' # current_metrics_)
            => mon_mutex_ = "free"]_vars

\* C23 (SpecMon): the step that checks a sample calls each registered alert
\* callback exactly once when the sample is above at least one of the CPU,
\* memory and temperature thresholds (once also when it is above several),
\* and calls none when it is above none.
AlertedBy(log, i) == Len(SelectSeq(log, LAMBDA a : a[1] = i))
EachCallbackOncePerSample ==
    [][(monitor_thread_ = "thresholds" /\ monitor_thread_' = "sleep") =>
         LET m == current_metrics_[1]
             crossed == \/ m.cpu_usage > cpu_threshold_
                        \/ m.memory_usage > memory_threshold_
                        \/ m.temperature > temperature_threshold_
         IN \A i \in 1 .. alert_callbacks_ :
               AlertedBy(alerts', i) - AlertedBy(alerts, i)
                 = (IF crossed THEN 1 ELSE 0)]_vars

(***************************************************************************)
(* Properties of benchmark::BenchmarkManager                               *)
(***************************************************************************)

\* C26 (SpecBench): a sweep with a per-run timeout that has returned holds
\* exactly one row for every (batch size, run) pair, |batch_sizes| x num_runs
\* rows in all, whichever runs exceeded the timeout.
OneRowPerBatchSizeAndRun ==
    (bench_pc = "returned" /\ initialized_ /\ bench_config.timeout_ms # "nullopt")
    => /\ Len(results) = Len(bench_config.batch_sizes) * bench_config.num_runs
       /\ \A b \in 1 .. Len(bench_config.batch_sizes),
             r \in 0 .. bench_config.num_runs - 1 :
             \E k \in 1 .. Len(results) :
                results[k].batch = b /\ results[k].run = r

\* C36 (SpecBench): RunBenchmark never lets an exception escape: a warm-up
\* run or a measured run that fails to load the model or to run inference is
\* an unsuccessful run, and the sweep goes on and returns its rows.
RunBenchmarkNeverThrows ==
    bench_pc # "threw"

\* the context a ReportError call of SpecErr builds from its arguments
ReportedContext(m, s, comp) ==
    [message |-> m, severity |-> s, category |-> "HARDWARE",
     component |-> IF comp = "" THEN "Unknown" ELSE comp, timestamp |-> 0]

\* the history gained `context` as its newest entry, the oldest entry leaving
\* when the history was full
HistoryGained(context) ==
    LET old == error_history_
        new == error_history_'
        shift == IF Len(old) >= MAX_HISTORY THEN 1 ELSE 0
    IN  /\ Len(new) = Len(old) + 1 - shift
        /\ new[Len(new)] = context
        /\ \A i \in 1 .. Len(new) - 1 : new[i] = old[i + shift]

\* C37 (SpecErr), as stated: every ReportError call, the one with an empty
\* message included, builds one ErrorContext and hands it to HandleError: the
\* history gains the entry and every listener is notified once.
ReportErrorAlwaysForwards ==
    [][\A m \in {"m", ""}, s \in ErrSeverities, comp \in {"", "comp"} :
          ReportError(m, s, "HARDWARE", comp, 0) =>
             /\ eh_obs'.op = "HandleError"
             /\ eh_obs'.context.message = m
             /\ HistoryGained(eh_obs'.context)
             /\ eh_obs'.notified = [i \in 1 .. Len(callbacks_) |-> i]]_vars

\* C37 (SpecErr), amended: a ReportError call with a non-empty message builds
\* one ErrorContext (an empty component name recorded as "Unknown") and hands
\* it to HandleError: the history gains the entry, the oldest leaving at the
\* cap, and every listener is notified once; a call with an empty message
\* records nothing and notifies no listener.
ReportErrorForwardsNonEmpty ==
    [][\A m \in {"m", ""}, s \in ErrSeverities, comp \in {"", "comp"} :
          ReportError(m, s, "HARDWARE", comp, 0) =>
             IF m = ""
             THEN /\ eh_obs'.op = "ReportError"
                  /\ error_history_' = error_history_
             ELSE /\ eh_obs'.op = "HandleError"
                  /\ eh_obs'.context = ReportedContext(m, s, comp)
                  /\ HistoryGained(eh_obs'.context)
                  /\ eh_obs'.notified = [i \in 1 .. Len(callbacks_) |-> i]]_vars
UnnamedComponentReported ==
    /\ eh_obs.op = "HandleError"
    /\ eh_obs.context.component = "Unknown"
    /\ Len(callbacks_) = 2
    /\ eh_obs.notified = <<1, 2>>
    /\ Len(error_history_) = 2

\* the largest element of a non-empty set of numbers
Largest(S) == CHOOSE x \in S : \A y \in S : y <= x
RECURSIVE SumOfTimes(_, _)
SumOfTimes(readings, n) ==
    IF n = 0 THEN 0 ELSE SumOfTimes(readings, n - 1) + readings[n].inference_time_ms

\* C38 (SpecBatch): for a batch within max_batch_size, the metrics that
\* RunBatchInference returns are the fold of the items' metrics from zero:
\* inference_time_ms is the sum of the items' times, memory, CPU and GPU usage
\* are each the largest of the items' values, and all four are zero for an
\* empty batch.
BatchMetricsFoldFromZero ==
    (eng_obs.op = "RunBatchInference" /\ "metrics" \in DOMAIN eng_obs
       /\ eng_obs.metrics # <<>>) =>
        LET got == eng_obs.metrics[1]
            rd == eng_obs.readings
            n == Len(eng_obs.gpus)
        IN  /\ got.inference_time_ms = SumOfTimes(rd, n)
            /\ got.memory_usage_mb =
                  Largest({0} \cup {rd[i].memory_usage_mb : i \in 1 .. n})
            /\ got.cpu_usage_percent =
                  Largest({0} \cup {rd[i].cpu_usage_percent : i \in 1 .. n})
            /\ got.gpu_usage_percent =
                  Largest({0} \cup {eng_obs.gpus[i] : i \in 1 .. n})

====
